---- MODULE Spec2Model ----
(***************************************************************************)
(* Model of the todo-net backend: AuthService (register / login / token    *)
(* issue), the JwtBearer token validation configured in Program.cs, the    *)
(* ExceptionMiddleware, and TaskService behind TasksController; and of the  *)
(* React frontend's AuthProvider, axios client and TaskList component.     *)
(*                                                                         *)
(* Strings are sequences of one-character strings, so that ToLowerInvariant*)
(* and Trim are computed and not assumed.  A nullable value is a set with  *)
(* at most one element: {} is null, {v} holds v.                           *)
(***************************************************************************)
EXTENDS Integers, Sequences, FiniteSets, TLC

VARIABLES
  users,          \* AppDbContext.Users: the rows of the Users table
  nextUserId,     \* next value of the Users.Id autoincrement key
  tasks,          \* AppDbContext.Tasks: the rows of the Tasks table
  nextTaskId,     \* next value of the Tasks.Id autoincrement key
  now,            \* DateTime.UtcNow, in minutes
  isDevelopment,  \* IHostEnvironment.IsDevelopment()
  pc,             \* per request slot: "idle", "saving" (awaiting the store), "done"
  req,            \* per request slot: the request being handled
  pending,        \* per request slot: the entity built by the handler, not yet saved
  resp,           \* per request slot: the HTTP response sent to the caller
  steps,          \* per request slot: the service calls the handler has made
  auth,           \* outcome of the bearer-token authentication of the last request
  localStorage,   \* the browser's localStorage: the token and user entries
  authState,      \* the state of AuthProvider
  location,       \* window.location.pathname
  taskList,       \* the state of the TaskList component and its fetches
  outbox          \* per request slot: the call of the frontend awaiting its response

\* the browser's side
clientVars == <<localStorage, authState, location, taskList, outbox>>

vars == <<users, nextUserId, tasks, nextTaskId, now, isDevelopment,
          pc, req, pending, resp, steps, auth,
          localStorage, authState, location, taskList, outbox>>

-----------------------------------------------------------------------------
(* Bounds of the model *)

MaxProcs == 2      \* request slots handled concurrently
MaxTime == 122     \* the clock stops here
MaxSalt == 1       \* BCrypt salts to draw from
MaxGuid == 1       \* Guid.NewGuid() values to draw from
MaxTasks == 2      \* task rows ever created
MaxFetches == 3    \* fetches a TaskList ever issues

Procs == 1..MaxProcs
Salts == 1..MaxSalt
Guids == 1..MaxGuid

-----------------------------------------------------------------------------
(* Nullable values *)

Null == {}
Some(v) == {v}
HasValue(x) == x # {}
ValueOf(x) == CHOOSE v \in x : TRUE

-----------------------------------------------------------------------------
(* Strings *)

UpperChars == <<"A", "B", "C", "D", "E", "F", "G", "H", "I", "J", "K", "L", "M",
                "N", "O", "P", "Q", "R", "S", "T", "U", "V", "W", "X", "Y", "Z">>
LowerChars == <<"a", "b", "c", "d", "e", "f", "g", "h", "i", "j", "k", "l", "m",
                "n", "o", "p", "q", "r", "s", "t", "u", "v", "w", "x", "y", "z">>
WhiteSpace == {" ", "\t"}

\* the lower-case letter of each upper-case letter
LowerOf ==
  [c \in {UpperChars[i] : i \in 1..Len(UpperChars)} |->
     LowerChars[CHOOSE i \in 1..Len(UpperChars) : UpperChars[i] = c]]

ToLowerChar(c) == IF c \in DOMAIN LowerOf THEN LowerOf[c] ELSE c

\* string.ToLowerInvariant() / string.ToLower()
ToLowerInvariant(s) == [i \in 1..Len(s) |-> ToLowerChar(s[i])]

RECURSIVE TrimStart(_)
TrimStart(s) ==
  IF s # <<>> /\ Head(s) \in WhiteSpace THEN TrimStart(Tail(s)) ELSE s

RECURSIVE TrimEnd(_)
TrimEnd(s) ==
  IF s # <<>> /\ s[Len(s)] \in WhiteSpace
  THEN TrimEnd(SubSeq(s, 1, Len(s) - 1))
  ELSE s

\* string.Trim()
Trim(s) == TrimEnd(TrimStart(s))

\* string.IsNullOrWhiteSpace on a non-null string
IsWhiteSpace(s) == \A i \in 1..Len(s) : s[i] \in WhiteSpace

\* a string of n copies of c
Rep(c, n) == [i \in 1..n |-> c]

\* int.ToString() and int.TryParse, over decimal digits
Digits == <<"0", "1", "2", "3", "4", "5", "6", "7", "8", "9">>

RECURSIVE IntToString(_)
IntToString(n) ==
  IF n < 10 THEN <<Digits[n + 1]>>
  ELSE IntToString(n \div 10) \o <<Digits[(n % 10) + 1]>>

IsDigit(c) == \E i \in 1..10 : Digits[i] = c
DigitValue(c) == (CHOOSE i \in 1..10 : Digits[i] = c) - 1

RECURSIVE ParseDigits(_)
ParseDigits(s) ==
  IF s = <<>> THEN 0
  ELSE 10 * ParseDigits(SubSeq(s, 1, Len(s) - 1)) + DigitValue(s[Len(s)])

\* int.TryParse: Null when the text is not a number
TryParseInt(s) ==
  IF s # <<>> /\ \A i \in 1..Len(s) : IsDigit(s[i]) THEN Some(ParseDigits(s)) ELSE Null

-----------------------------------------------------------------------------
(* Data annotations checked by [ApiController] before the action runs *)

PasswordMinLength == 8
PasswordMaxLength == 100
EmailMaxLength == 255

\* [Required]: a string that is empty or only white space is rejected
RequiredOk(s) == ~IsWhiteSpace(s)

\* [EmailAddress]: exactly one '@', neither first nor last
EmailAddressOk(s) ==
  LET at == {i \in 1..Len(s) : s[i] = "@"}
  IN  /\ Cardinality(at) = 1
      /\ 1 \notin at
      /\ Len(s) \notin at

\* the confirmation is not compared with the password
RegisterRequestValid_NoCompare(r) ==
  /\ RequiredOk(r.Email)
  /\ EmailAddressOk(r.Email)
  /\ Len(r.Email) <= EmailMaxLength
  /\ RequiredOk(r.Password)
  /\ Len(r.Password) >= PasswordMinLength
  /\ Len(r.Password) <= PasswordMaxLength
  /\ RequiredOk(r.ConfirmPassword)

RegisterRequestValid(r) ==
  /\ RequiredOk(r.Email)
  /\ EmailAddressOk(r.Email)
  /\ Len(r.Email) <= EmailMaxLength
  /\ RequiredOk(r.Password)
  /\ Len(r.Password) >= PasswordMinLength
  /\ Len(r.Password) <= PasswordMaxLength
  /\ RequiredOk(r.ConfirmPassword)
  /\ r.ConfirmPassword = r.Password

LoginRequestValid(r) ==
  /\ RequiredOk(r.Email)
  /\ EmailAddressOk(r.Email)
  /\ RequiredOk(r.Password)

-----------------------------------------------------------------------------
(* BCrypt.Net.BCrypt: a salted one-way hash *)

HashPassword(password, salt) == [alg |-> "bcrypt", salt |-> salt, digest |-> <<salt, password>>]

Verify(password, hash) == hash = HashPassword(password, hash.salt)

-----------------------------------------------------------------------------
(* JwtSettings and the signed token *)

SecretKey == "JwtSettings:SecretKey"
Issuer == "TodoApi"
Audience == "TodoFrontend"
ExpirationMinutes == 60

\* HMAC-SHA256 of the payload under a key
Sign(payload, key) == [key |-> key, over |-> payload]

Payload(token) ==
  [iss |-> token.iss, aud |-> token.aud, nameid |-> token.nameid,
   email |-> token.email, jti |-> token.jti, iat |-> token.iat, exp |-> token.exp]

\* the token is built before SaveChangesAsync has assigned the key: Id is still 0
GenerateAuthResponse_UnsavedId(user, t, g) ==
  LET expiresAt == t + ExpirationMinutes
      payload == [iss |-> Issuer, aud |-> Audience,
                  nameid |-> IntToString(0), email |-> user.Email,
                  jti |-> g, iat |-> t, exp |-> expiresAt]
      token == [iss |-> payload.iss, aud |-> payload.aud, nameid |-> payload.nameid,
                email |-> payload.email, jti |-> payload.jti, iat |-> payload.iat,
                exp |-> payload.exp, sig |-> Sign(payload, SecretKey)]
  IN  [Token |-> token, ExpiresAt |-> expiresAt,
       User |-> [Id |-> user.Id, Email |-> user.Email]]

\* the whole User row is serialised into the response
GenerateAuthResponse_WholeUser(user, t, g) ==
  LET expiresAt == t + ExpirationMinutes
      payload == [iss |-> Issuer, aud |-> Audience,
                  nameid |-> IntToString(user.Id), email |-> user.Email,
                  jti |-> g, iat |-> t, exp |-> expiresAt]
      token == [iss |-> payload.iss, aud |-> payload.aud, nameid |-> payload.nameid,
                email |-> payload.email, jti |-> payload.jti, iat |-> payload.iat,
                exp |-> payload.exp, sig |-> Sign(payload, SecretKey)]
  IN  [Token |-> token, ExpiresAt |-> expiresAt, User |-> user]

\* AuthService.GenerateAuthResponse at time t, with g the value of Guid.NewGuid()
GenerateAuthResponse(user, t, g) ==
  LET expiresAt == t + ExpirationMinutes
      payload == [iss |-> Issuer, aud |-> Audience,
                  nameid |-> IntToString(user.Id), email |-> user.Email,
                  jti |-> g, iat |-> t, exp |-> expiresAt]
      token == [iss |-> payload.iss, aud |-> payload.aud, nameid |-> payload.nameid,
                email |-> payload.email, jti |-> payload.jti, iat |-> payload.iat,
                exp |-> payload.exp, sig |-> Sign(payload, SecretKey)]
  IN  [Token |-> token, ExpiresAt |-> expiresAt,
       User |-> [Id |-> user.Id, Email |-> user.Email]]

\* ClockSkew left at its default of five minutes
ValidateToken_DefaultSkew(token, t) ==
  IF token.sig # Sign(Payload(token), SecretKey) THEN "Invalid"
  ELSE IF token.iss # Issuer \/ token.aud # Audience THEN "Invalid"
  ELSE IF token.exp + 5 < t THEN "Expired"
  ELSE "Success"

\* only the newest token of a subject is accepted, as with a server-side session
ValidateToken_Revocable(token, t) ==
  IF token.sig # Sign(Payload(token), SecretKey) THEN "Invalid"
  ELSE IF token.iss # Issuer \/ token.aud # Audience THEN "Invalid"
  ELSE IF \E p \in DOMAIN resp :
            /\ resp[p].status \in {200, 201}
            /\ req[p].op \in {"register", "login"}
            /\ ValueOf(resp[p].body).Token.nameid = token.nameid
            /\ ValueOf(resp[p].body).Token.iat > token.iat
       THEN "Invalid"
  ELSE IF token.exp < t THEN "Expired"
  ELSE "Success"

\* AddJwtBearer TokenValidationParameters: signature, issuer, audience, lifetime
\* with ClockSkew = TimeSpan.Zero
ValidateToken(token, t) ==
  IF token.sig # Sign(Payload(token), SecretKey) THEN "Invalid"
  ELSE IF token.iss # Issuer \/ token.aud # Audience THEN "Invalid"
  ELSE IF token.exp < t THEN "Expired"
  ELSE "Success"

\* TasksController.GetCurrentUserId: the NameIdentifier claim parsed as an int
GetCurrentUserId(token) == TryParseInt(token.nameid)

\* the header of the tokens the service writes: HMAC-SHA256
JwtHeader == [alg |-> "HS256", typ |-> "JWT"]

\* JwtSecurityTokenHandler.WriteToken: header . payload . signature
WriteToken(token) == <<JwtHeader, Payload(token), token.sig>>

\* a bearer is read as a token when it has the three segments of a signed token
CanReadToken(bearer) == Len(bearer) = 3

\* the token read from the segments of a bearer
ReadToken(bearer) ==
  [iss |-> bearer[2].iss, aud |-> bearer[2].aud, nameid |-> bearer[2].nameid,
   email |-> bearer[2].email, jti |-> bearer[2].jti, iat |-> bearer[2].iat,
   exp |-> bearer[2].exp, sig |-> bearer[3]]

\* what is known of a bearer that is not a token
NoToken == [segments |-> 0]

\* JwtBearerHandler.HandleAuthenticateAsync on the bearer of the Authorization
\* header: a bearer that cannot be read fails as malformed, a token that can
\* is validated against the TokenValidationParameters
HandleAuthenticate(bearer, t) ==
  IF ~CanReadToken(bearer) THEN "Malformed" ELSE ValidateToken(ReadToken(bearer), t)

-----------------------------------------------------------------------------
(* HTTP responses *)

Response(status, message, body) == [status |-> status, message |-> message, body |-> body]

NoResp == Response(0, "", Null)
NoReq == [op |-> "none"]
NoAuth == [outcome |-> "None"]

\* the automatic 400 of [ApiController] for an invalid model
ValidationProblem == Response(400, "One or more validation errors occurred.", Null)

DbUpdateExceptionMessage ==
  "An error occurred while saving the entity changes. See the inner exception for details."

\* ExceptionMiddleware.InvokeAsync, last catch clause
InternalServerError(exMessage, development) ==
  Response(500,
           IF development THEN exMessage
           ELSE "An unexpected error occurred. Please try again later.",
           Null)

\* JwtBearerEvents.OnChallenge
Challenge == Response(401, "Authentication required. Please provide a valid token.", Null)

-----------------------------------------------------------------------------
(* AuthService *)

\* the Email column of a new row
NormalizedEmail(email) == Trim(ToLowerInvariant(email))

\* the pre-check compares the stored email with the email as typed
EmailExistsAsync_RawEmail(us, email) == \E u \in us : u.Email = email

\* AuthService.EmailExistsAsync
EmailExistsAsync(us, email) ==
  \E u \in us : u.Email = Trim(ToLowerInvariant(email))

\* the unique index is missing
UniqueIndexViolated_NoIndex(us, email) == FALSE

\* the unique index on Users.Email, checked by SaveChangesAsync
UniqueIndexViolated(us, email) == \E u \in us : u.Email = email

\* the lookup compares the stored email with the email as typed
LoginAsync_RawEmail(us, r, t, g) ==
  LET found == {u \in us : u.Email = r.Email}
  IN  IF found = {}
      THEN [result |-> Null, thrown |-> Null, steps |-> <<"FirstOrDefaultAsync">>]
      ELSE LET user == CHOOSE u \in found : TRUE
           IN  IF ~Verify(r.Password, user.PasswordHash)
               THEN [result |-> Null, thrown |-> Null,
                     steps |-> <<"FirstOrDefaultAsync", "Verify">>]
               ELSE [result |-> Some(GenerateAuthResponse(user, t, g)), thrown |-> Null,
                     steps |-> <<"FirstOrDefaultAsync", "Verify", "GenerateAuthResponse">>]

\* a lookup miss raises an exception instead of returning null
LoginAsync_ThrowOnMiss(us, r, t, g) ==
  LET found == {u \in us : u.Email = Trim(ToLowerInvariant(r.Email))}
  IN  IF found = {}
      THEN [result |-> Null, thrown |-> Some("User not found"),
            steps |-> <<"FirstOrDefaultAsync">>]
      ELSE LET user == CHOOSE u \in found : TRUE
           IN  IF ~Verify(r.Password, user.PasswordHash)
               THEN [result |-> Null, thrown |-> Null,
                     steps |-> <<"FirstOrDefaultAsync", "Verify">>]
               ELSE [result |-> Some(GenerateAuthResponse(user, t, g)), thrown |-> Null,
                     steps |-> <<"FirstOrDefaultAsync", "Verify", "GenerateAuthResponse">>]

\* AuthService.LoginAsync: result is Null (null) or holds the AuthResponse;
\* thrown holds the message of an exception leaving the method
LoginAsync(us, r, t, g) ==
  LET found == {u \in us : u.Email = Trim(ToLowerInvariant(r.Email))}
  IN  IF found = {}
      THEN [result |-> Null, thrown |-> Null, steps |-> <<"FirstOrDefaultAsync">>]
      ELSE LET user == CHOOSE u \in found : TRUE
           IN  IF ~Verify(r.Password, user.PasswordHash)
               THEN [result |-> Null, thrown |-> Null,
                     steps |-> <<"FirstOrDefaultAsync", "Verify">>]
               ELSE [result |-> Some(GenerateAuthResponse(user, t, g)), thrown |-> Null,
                     steps |-> <<"FirstOrDefaultAsync", "Verify", "GenerateAuthResponse">>]

\* AuthController.Login on the service's result
LoginResult(result) ==
  IF result = Null
  THEN Response(401, "Invalid email or password", Null)
  ELSE Response(200, "", result)

\* AuthController.Register on the service's result
RegisterResult(result) ==
  IF result = Null
  THEN Response(409, "An account with this email already exists", Null)
  ELSE Response(201, "", result)

\* POST api/auth/register up to the await of SaveChangesAsync
RegisterBegin(p, r) ==
  /\ UNCHANGED clientVars
  /\ pc[p] # "saving"
  /\ req' = [req EXCEPT ![p] = r]
  /\ auth' = NoAuth
  /\ IF ~RegisterRequestValid(r)
     THEN /\ resp' = [resp EXCEPT ![p] = ValidationProblem]
          /\ steps' = [steps EXCEPT ![p] = <<>>]
          /\ pc' = [pc EXCEPT ![p] = "done"]
          /\ pending' = [pending EXCEPT ![p] = Null]
     ELSE IF EmailExistsAsync(users, r.Email)
     THEN /\ resp' = [resp EXCEPT ![p] = RegisterResult(Null)]
          /\ steps' = [steps EXCEPT ![p] = <<"EmailExistsAsync">>]
          /\ pc' = [pc EXCEPT ![p] = "done"]
          /\ pending' = [pending EXCEPT ![p] = Null]
     ELSE \E salt \in Salts :
          /\ pending' = [pending EXCEPT ![p] =
                Some([Email |-> Trim(ToLowerInvariant(r.Email)),
                      PasswordHash |-> HashPassword(r.Password, salt),
                      CreatedAt |-> now])]
          /\ steps' = [steps EXCEPT ![p] = <<"EmailExistsAsync", "HashPassword">>]
          /\ pc' = [pc EXCEPT ![p] = "saving"]
          /\ resp' = [resp EXCEPT ![p] = NoResp]
  /\ UNCHANGED <<users, nextUserId, tasks, nextTaskId, now, isDevelopment>>

\* POST api/auth/register from SaveChangesAsync to the response
RegisterSave(p) ==
  /\ UNCHANGED clientVars
  /\ pc[p] = "saving"
  /\ req[p].op = "register"
  /\ LET row == ValueOf(pending[p])
     IN  IF UniqueIndexViolated(users, row.Email)
         THEN \* DbUpdateException: logged, rethrown, caught by ExceptionMiddleware
              /\ resp' = [resp EXCEPT ![p] =
                    InternalServerError(DbUpdateExceptionMessage, isDevelopment)]
              /\ steps' = [steps EXCEPT ![p] = Append(steps[p], "SaveChangesAsync")]
              /\ UNCHANGED <<users, nextUserId>>
         ELSE \E g \in Guids :
              LET user == [Id |-> nextUserId, Email |-> row.Email,
                           PasswordHash |-> row.PasswordHash, CreatedAt |-> row.CreatedAt]
              IN  /\ users' = users \cup {user}
                  /\ nextUserId' = nextUserId + 1
                  /\ resp' = [resp EXCEPT ![p] =
                        RegisterResult(Some(GenerateAuthResponse(user, now, g)))]
                  /\ steps' = [steps EXCEPT ![p] =
                        steps[p] \o <<"SaveChangesAsync", "GenerateAuthResponse">>]
  /\ pc' = [pc EXCEPT ![p] = "done"]
  /\ pending' = [pending EXCEPT ![p] = Null]
  /\ auth' = NoAuth
  /\ UNCHANGED <<req, tasks, nextTaskId, now, isDevelopment>>

\* POST api/auth/login
Login(p, r) ==
  /\ UNCHANGED clientVars
  /\ pc[p] # "saving"
  /\ req' = [req EXCEPT ![p] = r]
  /\ auth' = NoAuth
  /\ pc' = [pc EXCEPT ![p] = "done"]
  /\ pending' = [pending EXCEPT ![p] = Null]
  /\ IF ~LoginRequestValid(r)
     THEN /\ resp' = [resp EXCEPT ![p] = ValidationProblem]
          /\ steps' = [steps EXCEPT ![p] = <<>>]
     ELSE \E g \in Guids :
          LET out == LoginAsync(users, r, now, g)
          IN  /\ resp' = [resp EXCEPT ![p] =
                    IF HasValue(out.thrown)
                    THEN InternalServerError(ValueOf(out.thrown), isDevelopment)
                    ELSE LoginResult(out.result)]
              /\ steps' = [steps EXCEPT ![p] = out.steps]
  /\ UNCHANGED <<users, nextUserId, tasks, nextTaskId, now, isDevelopment>>

-----------------------------------------------------------------------------
(* Task DTOs and their data annotations *)

TitleMaxLength == 200
DescriptionMaxLength == 2000
SearchMaxLength == 100
DefaultPriority == 2

\* CreateTaskRequest: Priority not sent keeps the initializer's value
BoundPriority(b) == IF HasValue(b.Priority) THEN ValueOf(b.Priority) ELSE DefaultPriority

CreateTaskRequestValid(b) ==
  /\ RequiredOk(b.Title)
  /\ Len(b.Title) <= TitleMaxLength
  /\ HasValue(b.Description) => Len(ValueOf(b.Description)) <= DescriptionMaxLength
  /\ BoundPriority(b) \in 1..3

UpdateTaskRequestValid(b) ==
  /\ HasValue(b.Title) => Len(ValueOf(b.Title)) <= TitleMaxLength
  /\ HasValue(b.Description) => Len(ValueOf(b.Description)) <= DescriptionMaxLength
  /\ HasValue(b.Priority) => ValueOf(b.Priority) \in 1..3

\* TaskQueryParams: SortBy and SortDirection are not nullable, so a value bound
\* from a blank query-string value (null) is rejected like a missing [Required]
TaskQueryParamsValid(q) ==
  /\ HasValue(q.Priority) => ValueOf(q.Priority) \in 1..3
  /\ HasValue(q.Search) => Len(ValueOf(q.Search)) <= SearchMaxLength
  /\ RequiredOk(q.SortBy)
  /\ RequiredOk(q.SortDirection)

\* the initializers of TaskQueryParams.SortBy and TaskQueryParams.SortDirection
DefaultSortBy == <<"c", "r", "e", "a", "t", "e", "d", "A", "t">>
DefaultSortDirection == <<"d", "e", "s", "c">>

\* [FromQuery] TaskQueryParams: a key the query string does not carry leaves
\* the property at its initializer
BindTaskQueryParams(q) ==
  [q EXCEPT !.SortBy = IF HasValue(@) THEN ValueOf(@) ELSE DefaultSortBy,
            !.SortDirection = IF HasValue(@) THEN ValueOf(@) ELSE DefaultSortDirection]

\* TaskResponse.PriorityLabel
PriorityLabel(priority) ==
  CASE priority = 1 -> "Low"
    [] priority = 2 -> "Medium"
    [] priority = 3 -> "High"
    [] OTHER -> "Unknown"

\* TaskService.MapToResponse
MapToResponse(task) ==
  [Id |-> task.Id, Title |-> task.Title, Description |-> task.Description,
   DueDate |-> task.DueDate, Priority |-> task.Priority,
   PriorityLabel |-> PriorityLabel(task.Priority),
   IsCompleted |-> task.IsCompleted, CreatedAt |-> task.CreatedAt,
   UpdatedAt |-> task.UpdatedAt]

NotFound == Response(404, "Task not found", Null)

-----------------------------------------------------------------------------
(* TaskService: queries *)

\* the ownership test is missing: any user's task with that id is returned
GetUserTaskAsync_AnyOwner(ts, userId, taskId) == {t \in ts : t.Id = taskId}

\* TaskService.GetUserTaskAsync: Null, or the task with that id owned by the user
GetUserTaskAsync(ts, userId, taskId) ==
  {t \in ts : t.Id = taskId /\ t.UserId = userId}

\* string.Contains
Contains(s, sub) ==
  \E i \in 0..(Len(s) - Len(sub)) : SubSeq(s, i + 1, i + Len(sub)) = sub

\* the search compares the text as stored with the term as typed
ApplyFilters_CaseSensitive(query, q) ==
  {t \in query :
     /\ HasValue(q.IsCompleted) => t.IsCompleted = ValueOf(q.IsCompleted)
     /\ HasValue(q.Priority) => t.Priority = ValueOf(q.Priority)
     /\ HasValue(q.DueBefore) =>
          (HasValue(t.DueDate) /\ ValueOf(t.DueDate) <= ValueOf(q.DueBefore))
     /\ HasValue(q.DueAfter) =>
          (HasValue(t.DueDate) /\ ValueOf(t.DueDate) >= ValueOf(q.DueAfter))
     /\ (HasValue(q.Search) /\ ~IsWhiteSpace(ValueOf(q.Search))) =>
          LET searchTerm == ValueOf(q.Search)
          IN  \/ Contains(t.Title, searchTerm)
              \/ /\ HasValue(t.Description)
                 /\ Contains(ValueOf(t.Description), searchTerm)}

\* TaskService.ApplyFilters
ApplyFilters(query, q) ==
  {t \in query :
     /\ HasValue(q.IsCompleted) => t.IsCompleted = ValueOf(q.IsCompleted)
     /\ HasValue(q.Priority) => t.Priority = ValueOf(q.Priority)
     /\ HasValue(q.DueBefore) =>
          (HasValue(t.DueDate) /\ ValueOf(t.DueDate) <= ValueOf(q.DueBefore))
     /\ HasValue(q.DueAfter) =>
          (HasValue(t.DueDate) /\ ValueOf(t.DueDate) >= ValueOf(q.DueAfter))
     /\ (HasValue(q.Search) /\ ~IsWhiteSpace(ValueOf(q.Search))) =>
          LET searchTerm == ToLowerInvariant(ValueOf(q.Search))
          IN  \/ Contains(ToLowerInvariant(t.Title), searchTerm)
              \/ /\ HasValue(t.Description)
                 /\ Contains(ToLowerInvariant(ValueOf(t.Description)), searchTerm)}

\* the store's ordering of characters (binary collation)
CharOrder == <<" ", "0", "1", "2", "3", "4", "5", "6", "7", "8", "9", "@">>
             \o UpperChars \o LowerChars

CharCode(c) == CHOOSE i \in 1..Len(CharOrder) : CharOrder[i] = c

\* -1, 0 or 1 as s sorts before, with or after t
RECURSIVE StrCompare(_, _)
StrCompare(s, t) ==
  IF s = <<>> /\ t = <<>> THEN 0
  ELSE IF s = <<>> THEN -1
  ELSE IF t = <<>> THEN 1
  ELSE IF CharCode(Head(s)) < CharCode(Head(t)) THEN -1
  ELSE IF CharCode(Head(s)) > CharCode(Head(t)) THEN 1
  ELSE StrCompare(Tail(s), Tail(t))

IntCompare(a, b) == IF a < b THEN -1 ELSE IF a > b THEN 1 ELSE 0

\* the store orders NULL before every value
NullableIntCompare(a, b) ==
  IF ~HasValue(a) /\ ~HasValue(b) THEN 0
  ELSE IF ~HasValue(a) THEN -1
  ELSE IF ~HasValue(b) THEN 1
  ELSE IntCompare(ValueOf(a), ValueOf(b))

SortByDueDate == <<"d", "u", "e", "D", "a", "t", "e">>
SortByPriority == <<"p", "r", "i", "o", "r", "i", "t", "y">>
SortByCreatedAt == <<"c", "r", "e", "a", "t", "e", "d", "A", "t">>
SortByTitle == <<"t", "i", "t", "l", "e">>
Asc == <<"a", "s", "c">>
Desc == <<"d", "e", "s", "c">>

\* the default branch of the switch orders by priority
KeyCompare_UnknownByPriority(a, b, q) ==
  LET sortBy == ToLowerInvariant(q.SortBy)
  IN  IF sortBy = <<"d", "u", "e", "d", "a", "t", "e">>
      THEN NullableIntCompare(a.DueDate, b.DueDate)
      ELSE IF sortBy = <<"t", "i", "t", "l", "e">>
      THEN StrCompare(a.Title, b.Title)
      ELSE IF sortBy = <<"c", "r", "e", "a", "t", "e", "d", "a", "t">>
      THEN IntCompare(a.CreatedAt, b.CreatedAt)
      ELSE IntCompare(a.Priority, b.Priority)

\* the key comparison selected by the switch of ApplySorting
KeyCompare(a, b, q) ==
  LET sortBy == ToLowerInvariant(q.SortBy)
  IN  IF sortBy = <<"d", "u", "e", "d", "a", "t", "e">>
      THEN NullableIntCompare(a.DueDate, b.DueDate)
      ELSE IF sortBy = <<"p", "r", "i", "o", "r", "i", "t", "y">>
      THEN IntCompare(a.Priority, b.Priority)
      ELSE IF sortBy = <<"t", "i", "t", "l", "e">>
      THEN StrCompare(a.Title, b.Title)
      ELSE IntCompare(a.CreatedAt, b.CreatedAt)

\* all the ways to list the rows of a query
Orders(query) ==
  {o \in [1..Cardinality(query) -> query] : \A t \in query : \E i \in DOMAIN o : o[i] = t}

\* TaskService.ApplySorting: the orders the store may return; rows with equal
\* keys come in any order
ApplySorting(query, q) ==
  LET isDescending == ToLowerInvariant(q.SortDirection) = <<"d", "e", "s", "c">>
  IN  {o \in Orders(query) :
         \A i, j \in DOMAIN o :
           i < j => IF isDescending
                    THEN KeyCompare(o[i], o[j], q) >= 0
                    ELSE KeyCompare(o[i], o[j], q) <= 0}

\* the base query does not select on the owner
GetTasksAsync_AllUsers(ts, userId, q) ==
  LET query == ApplyFilters(ts, q)
      totalCount == Cardinality(query)
      completedCount == Cardinality({t \in query : t.IsCompleted})
  IN  {[Tasks |-> [i \in DOMAIN o |-> MapToResponse(o[i])],
        TotalCount |-> totalCount,
        CompletedCount |-> completedCount,
        PendingCount |-> totalCount - completedCount] : o \in ApplySorting(query, q)}

\* the counts are taken before the filters are applied
GetTasksAsync_CountUnfiltered(ts, userId, q) ==
  LET owned == {t \in ts : t.UserId = userId}
      query == ApplyFilters(owned, q)
      totalCount == Cardinality(owned)
      completedCount == Cardinality({t \in owned : t.IsCompleted})
  IN  {[Tasks |-> [i \in DOMAIN o |-> MapToResponse(o[i])],
        TotalCount |-> totalCount,
        CompletedCount |-> completedCount,
        PendingCount |-> totalCount - completedCount] : o \in ApplySorting(query, q)}

\* TaskService.GetTasksAsync: the TaskListResponses it may return
GetTasksAsync(ts, userId, q) ==
  LET query == ApplyFilters({t \in ts : t.UserId = userId}, q)
      totalCount == Cardinality(query)
      completedCount == Cardinality({t \in query : t.IsCompleted})
  IN  {[Tasks |-> [i \in DOMAIN o |-> MapToResponse(o[i])],
        TotalCount |-> totalCount,
        CompletedCount |-> completedCount,
        PendingCount |-> totalCount - completedCount] : o \in ApplySorting(query, q)}

-----------------------------------------------------------------------------
(* TaskService: commands *)

\* the title is stored as typed
CreateTaskAsync_RawTitle(userId, request, id, t) ==
  [Id |-> id,
   UserId |-> userId,
   Title |-> request.Title,
   Description |-> {Trim(d) : d \in request.Description},
   DueDate |-> request.DueDate,
   Priority |-> BoundPriority(request),
   IsCompleted |-> FALSE,
   CreatedAt |-> t,
   UpdatedAt |-> Null]

\* TaskService.CreateTaskAsync: the row stored for the request of user userId
\* at time t, under the key id the store assigns
CreateTaskAsync(userId, request, id, t) ==
  [Id |-> id,
   UserId |-> userId,
   Title |-> Trim(request.Title),
   Description |-> {Trim(d) : d \in request.Description},
   DueDate |-> request.DueDate,
   Priority |-> BoundPriority(request),
   IsCompleted |-> FALSE,
   CreatedAt |-> t,
   UpdatedAt |-> Null]

\* a field the request leaves out is reset to its default
UpdateTaskAsync_ResetOmitted(task, request, t) ==
  [task EXCEPT
     !.Title = IF HasValue(request.Title) THEN Trim(ValueOf(request.Title)) ELSE @,
     !.Description = {Trim(d) : d \in request.Description},
     !.DueDate = request.DueDate,
     !.Priority = IF HasValue(request.Priority)
                  THEN ValueOf(request.Priority) ELSE DefaultPriority,
     !.IsCompleted = IF HasValue(request.IsCompleted)
                     THEN ValueOf(request.IsCompleted) ELSE FALSE,
     !.UpdatedAt = Some(t)]

\* a request that carries no field leaves the row as it is
UpdateTaskAsync_StampOnChange(task, request, t) ==
  IF \A f \in DOMAIN request : request[f] = Null
  THEN task
  ELSE [task EXCEPT
          !.Title = IF HasValue(request.Title) THEN Trim(ValueOf(request.Title)) ELSE @,
          !.Description = IF HasValue(request.Description)
                          THEN Some(Trim(ValueOf(request.Description))) ELSE @,
          !.DueDate = IF HasValue(request.DueDate) THEN request.DueDate ELSE @,
          !.Priority = IF HasValue(request.Priority) THEN ValueOf(request.Priority) ELSE @,
          !.IsCompleted = IF HasValue(request.IsCompleted)
                          THEN ValueOf(request.IsCompleted) ELSE @,
          !.UpdatedAt = Some(t)]

\* a null description or due date in the request clears the field
UpdateTaskAsync_NullClears(task, request, t) ==
  [task EXCEPT
     !.Title = IF HasValue(request.Title) THEN Trim(ValueOf(request.Title)) ELSE @,
     !.Description = {Trim(d) : d \in request.Description},
     !.DueDate = request.DueDate,
     !.Priority = IF HasValue(request.Priority) THEN ValueOf(request.Priority) ELSE @,
     !.IsCompleted = IF HasValue(request.IsCompleted)
                     THEN ValueOf(request.IsCompleted) ELSE @,
     !.UpdatedAt = Some(t)]

\* TaskService.UpdateTaskAsync on the row found, at time t
UpdateTaskAsync(task, request, t) ==
  [task EXCEPT
     !.Title = IF HasValue(request.Title) THEN Trim(ValueOf(request.Title)) ELSE @,
     !.Description = IF HasValue(request.Description)
                     THEN Some(Trim(ValueOf(request.Description))) ELSE @,
     !.DueDate = IF HasValue(request.DueDate) THEN request.DueDate ELSE @,
     !.Priority = IF HasValue(request.Priority) THEN ValueOf(request.Priority) ELSE @,
     !.IsCompleted = IF HasValue(request.IsCompleted)
                     THEN ValueOf(request.IsCompleted) ELSE @,
     !.UpdatedAt = Some(t)]

\* the task is marked completed, whatever it was
ToggleCompletionAsync_SetCompleted(task, t) ==
  [task EXCEPT !.IsCompleted = TRUE, !.UpdatedAt = Some(t)]

\* TaskService.ToggleCompletionAsync on the row found, at time t
ToggleCompletionAsync(task, t) ==
  [task EXCEPT !.IsCompleted = ~task.IsCompleted, !.UpdatedAt = Some(t)]

\* the row is kept: nothing is removed from the table
DeleteTaskAsync_Tombstone(ts, task) == ts

\* TaskService.DeleteTaskAsync on the row found: the table without it
DeleteTaskAsync(ts, task) == ts \ {task}

-----------------------------------------------------------------------------
(* TasksController: one action per endpoint, the request served alone *)

\* what every task endpoint leaves alone
TaskFrame(p, r) ==
  /\ UNCHANGED clientVars
  /\ pc[p] # "saving"
  /\ req' = [req EXCEPT ![p] = r]
  /\ pc' = [pc EXCEPT ![p] = "done"]
  /\ pending' = [pending EXCEPT ![p] = Null]
  /\ steps' = [steps EXCEPT ![p] = <<>>]
  /\ auth' = NoAuth
  /\ UNCHANGED <<users, nextUserId, now, isDevelopment>>

\* GET api/tasks
GetTasks(p, userId, q) ==
  /\ TaskFrame(p, [op |-> "list", userId |-> userId, query |-> q])
  /\ LET queryParams == BindTaskQueryParams(q)
     IN  IF ~TaskQueryParamsValid(queryParams)
         THEN resp' = [resp EXCEPT ![p] = ValidationProblem]
         ELSE \E result \in GetTasksAsync(tasks, userId, queryParams) :
                resp' = [resp EXCEPT ![p] = Response(200, "", Some(result))]
  /\ UNCHANGED <<tasks, nextTaskId>>

\* GET api/tasks/{id}
GetTask(p, userId, id) ==
  /\ TaskFrame(p, [op |-> "get", userId |-> userId, id |-> id])
  /\ LET task == GetUserTaskAsync(tasks, userId, id)
     IN  resp' = [resp EXCEPT ![p] =
           IF task = Null THEN NotFound
           ELSE Response(200, "", Some(MapToResponse(ValueOf(task))))]
  /\ UNCHANGED <<tasks, nextTaskId>>

\* POST api/tasks
CreateTask(p, userId, b) ==
  /\ nextTaskId <= MaxTasks
  /\ TaskFrame(p, [op |-> "create", userId |-> userId, body |-> b])
  /\ IF ~CreateTaskRequestValid(b)
     THEN /\ resp' = [resp EXCEPT ![p] = ValidationProblem]
          /\ UNCHANGED <<tasks, nextTaskId>>
     ELSE LET task == CreateTaskAsync(userId, b, nextTaskId, now)
          IN  /\ tasks' = tasks \cup {task}
              /\ nextTaskId' = nextTaskId + 1
              /\ resp' = [resp EXCEPT ![p] = Response(201, "", Some(MapToResponse(task)))]

\* PUT api/tasks/{id}
UpdateTask(p, userId, id, b) ==
  /\ TaskFrame(p, [op |-> "update", userId |-> userId, id |-> id, body |-> b])
  /\ UNCHANGED nextTaskId
  /\ IF ~UpdateTaskRequestValid(b)
     THEN /\ resp' = [resp EXCEPT ![p] = ValidationProblem]
          /\ UNCHANGED tasks
     ELSE LET found == GetUserTaskAsync(tasks, userId, id)
          IN  IF found = Null
              THEN /\ resp' = [resp EXCEPT ![p] = NotFound]
                   /\ UNCHANGED tasks
              ELSE LET task == ValueOf(found)
                       updated == UpdateTaskAsync(task, b, now)
                   IN  /\ tasks' = (tasks \ {task}) \cup {updated}
                       /\ resp' = [resp EXCEPT ![p] =
                             Response(200, "", Some(MapToResponse(updated)))]

\* DELETE api/tasks/{id}
DeleteTask(p, userId, id) ==
  /\ TaskFrame(p, [op |-> "delete", userId |-> userId, id |-> id])
  /\ UNCHANGED nextTaskId
  /\ LET found == GetUserTaskAsync(tasks, userId, id)
     IN  IF found = Null
         THEN /\ resp' = [resp EXCEPT ![p] = NotFound]
              /\ UNCHANGED tasks
         ELSE /\ tasks' = DeleteTaskAsync(tasks, ValueOf(found))
              /\ resp' = [resp EXCEPT ![p] = Response(204, "", Null)]

\* PATCH api/tasks/{id}/toggle
ToggleCompletion(p, userId, id) ==
  /\ TaskFrame(p, [op |-> "toggle", userId |-> userId, id |-> id])
  /\ UNCHANGED nextTaskId
  /\ LET found == GetUserTaskAsync(tasks, userId, id)
     IN  IF found = Null
         THEN /\ resp' = [resp EXCEPT ![p] = NotFound]
              /\ UNCHANGED tasks
         ELSE LET task == ValueOf(found)
                  toggled == ToggleCompletionAsync(task, now)
              IN  /\ tasks' = (tasks \ {task}) \cup {toggled}
                  /\ resp' = [resp EXCEPT ![p] =
                        Response(200, "", Some(MapToResponse(toggled)))]

-----------------------------------------------------------------------------
(* GET api/tasks statement by statement: GetTasksAsync awaits three queries,
   each run by the store on its own, with no transaction around them; a slot
   that awaits the store has pc "saving" and its calls so far in steps *)

\* the filtered query of GetTasksAsync over the rows of the table
FilteredQuery(ts, userId, q) == ApplyFilters({t \in ts : t.UserId = userId}, q)

\* GET api/tasks up to the first CountAsync
GetTasksBegin(p, userId, q) ==
  /\ UNCHANGED clientVars
  /\ pc[p] # "saving"
  /\ req' = [req EXCEPT ![p] = [op |-> "list", userId |-> userId, query |-> q]]
  /\ auth' = NoAuth
  /\ LET queryParams == BindTaskQueryParams(q)
     IN  IF ~TaskQueryParamsValid(queryParams)
         THEN /\ resp' = [resp EXCEPT ![p] = ValidationProblem]
              /\ pc' = [pc EXCEPT ![p] = "done"]
              /\ pending' = [pending EXCEPT ![p] = Null]
              /\ steps' = [steps EXCEPT ![p] = <<>>]
         ELSE /\ resp' = [resp EXCEPT ![p] = NoResp]
              /\ pc' = [pc EXCEPT ![p] = "saving"]
              /\ pending' = [pending EXCEPT ![p] =
                    Some([totalCount |->
                            Cardinality(FilteredQuery(tasks, userId, queryParams))])]
              /\ steps' = [steps EXCEPT ![p] = <<"CountAsync">>]
  /\ UNCHANGED <<users, nextUserId, tasks, nextTaskId, now, isDevelopment>>

\* the second CountAsync, of the completed tasks
GetTasksCountCompleted(p) ==
  /\ UNCHANGED clientVars
  /\ pc[p] = "saving"
  /\ req[p].op = "list"
  /\ steps[p] = <<"CountAsync">>
  /\ LET queryParams == BindTaskQueryParams(req[p].query)
         query == FilteredQuery(tasks, req[p].userId, queryParams)
     IN  pending' = [pending EXCEPT ![p] =
           Some([totalCount |-> ValueOf(pending[p]).totalCount,
                 completedCount |-> Cardinality({t \in query : t.IsCompleted})])]
  /\ steps' = [steps EXCEPT ![p] = <<"CountAsync", "CountAsync">>]
  /\ auth' = NoAuth
  /\ UNCHANGED <<users, nextUserId, tasks, nextTaskId, now, isDevelopment, pc, req, resp>>

\* ToListAsync and the response
GetTasksToList(p) ==
  /\ UNCHANGED clientVars
  /\ pc[p] = "saving"
  /\ req[p].op = "list"
  /\ steps[p] = <<"CountAsync", "CountAsync">>
  /\ LET queryParams == BindTaskQueryParams(req[p].query)
         query == FilteredQuery(tasks, req[p].userId, queryParams)
         counts == ValueOf(pending[p])
     IN  \E o \in ApplySorting(query, queryParams) :
           resp' = [resp EXCEPT ![p] =
             Response(200, "",
               Some([Tasks |-> [i \in DOMAIN o |-> MapToResponse(o[i])],
                     TotalCount |-> counts.totalCount,
                     CompletedCount |-> counts.completedCount,
                     PendingCount |-> counts.totalCount - counts.completedCount]))]
  /\ pc' = [pc EXCEPT ![p] = "done"]
  /\ pending' = [pending EXCEPT ![p] = Null]
  /\ steps' = [steps EXCEPT ![p] = <<"CountAsync", "CountAsync", "ToListAsync">>]
  /\ auth' = NoAuth
  /\ UNCHANGED <<users, nextUserId, tasks, nextTaskId, now, isDevelopment, req>>

-----------------------------------------------------------------------------
(* PATCH api/tasks/{id}/toggle statement by statement: the row is read into
   the request's own DbContext, negated there, and written by SaveChangesAsync
   as an UPDATE of the changed columns of the row with that key; TodoTask has
   no concurrency token *)

DbUpdateConcurrencyExceptionMessage ==
  "The database operation was expected to affect 1 row(s), but actually affected 0 row(s)"

\* PATCH api/tasks/{id}/toggle up to the await of SaveChangesAsync
ToggleBegin(p, userId, id) ==
  /\ UNCHANGED clientVars
  /\ pc[p] # "saving"
  /\ req' = [req EXCEPT ![p] = [op |-> "toggle", userId |-> userId, id |-> id]]
  /\ auth' = NoAuth
  /\ LET found == GetUserTaskAsync(tasks, userId, id)
     IN  IF found = Null
         THEN /\ resp' = [resp EXCEPT ![p] = NotFound]
              /\ pc' = [pc EXCEPT ![p] = "done"]
              /\ pending' = [pending EXCEPT ![p] = Null]
         ELSE /\ resp' = [resp EXCEPT ![p] = NoResp]
              /\ pc' = [pc EXCEPT ![p] = "saving"]
              /\ pending' = [pending EXCEPT ![p] = found]
  /\ steps' = [steps EXCEPT ![p] = <<"GetUserTaskAsync">>]
  /\ UNCHANGED <<users, nextUserId, tasks, nextTaskId, now, isDevelopment>>

\* PATCH api/tasks/{id}/toggle from SaveChangesAsync to the response
ToggleSave(p) ==
  /\ UNCHANGED clientVars
  /\ pc[p] = "saving"
  /\ req[p].op = "toggle"
  /\ LET toggled == ToggleCompletionAsync(ValueOf(pending[p]), now)
         rows == {t \in tasks : t.Id = toggled.Id}
     IN  IF rows = {}
         THEN \* DbUpdateConcurrencyException: rethrown, caught by ExceptionMiddleware
              /\ resp' = [resp EXCEPT ![p] =
                    InternalServerError(DbUpdateConcurrencyExceptionMessage, isDevelopment)]
              /\ UNCHANGED tasks
         ELSE /\ tasks' = (tasks \ rows) \cup
                    {[t EXCEPT !.IsCompleted = toggled.IsCompleted,
                               !.UpdatedAt = toggled.UpdatedAt] : t \in rows}
              /\ resp' = [resp EXCEPT ![p] =
                    Response(200, "", Some(MapToResponse(toggled)))]
  /\ pc' = [pc EXCEPT ![p] = "done"]
  /\ pending' = [pending EXCEPT ![p] = Null]
  /\ steps' = [steps EXCEPT ![p] = Append(steps[p], "SaveChangesAsync")]
  /\ auth' = NoAuth
  /\ UNCHANGED <<users, nextUserId, nextTaskId, now, isDevelopment, req>>

-----------------------------------------------------------------------------
(* The clock and the bearer-token authentication of a request *)

\* time passes between two requests: d minutes
Tick(d) ==
  /\ UNCHANGED clientVars
  /\ now + d <= MaxTime
  /\ now' = now + d
  /\ auth' = NoAuth
  /\ UNCHANGED <<users, nextUserId, tasks, nextTaskId, isDevelopment,
                 pc, req, pending, resp, steps>>

\* a key that is not the server's
ForeignKey == "not the server's key"

\* the bearers a client holding a token can send: the token as issued, the
\* token with the subject replaced under the old signature, the same signed
\* with a key of the client's, and the token cut after its second segment
Bearers(token) ==
  LET issued == WriteToken(token)
      forged == [Payload(token) EXCEPT !.nameid = IntToString((ParseDigits(@) % 2) + 1)]
  IN  {issued,
       <<JwtHeader, forged, token.sig>>,
       <<JwtHeader, forged, Sign(forged, ForeignKey)>>,
       SubSeq(issued, 1, 2)}

\* UseAuthentication on a request carrying a bearer made from the token of an
\* earlier response of slot p, followed by GetCurrentUserId; a failed
\* authentication of an [Authorize] endpoint is answered by OnChallenge
Authenticate(p) ==
  /\ UNCHANGED clientVars
  /\ pc[p] = "done"
  /\ HasValue(resp[p].body)
  /\ \E bearer \in Bearers(ValueOf(resp[p].body).Token) :
       LET outcome == HandleAuthenticate(bearer, now)
           token == IF CanReadToken(bearer) THEN ReadToken(bearer) ELSE NoToken
       IN  auth' = [outcome |-> outcome, bearer |-> bearer, token |-> token, at |-> now,
                    userId |-> IF outcome = "Success" THEN GetCurrentUserId(token) ELSE Null,
                    response |-> IF outcome = "Success" THEN NoResp ELSE Challenge]
  /\ UNCHANGED <<users, nextUserId, tasks, nextTaskId, now, isDevelopment,
                 pc, req, pending, resp, steps>>

-----------------------------------------------------------------------------
(* Inputs *)

PwA == Rep("p", 8)
PwB == Rep("q", 8)
PwShort == Rep("p", 7)
PwBlank == <<" ">>

EmailA == <<"a", "@", "b">>
EmailAUpper == <<"A", "@", "B">>
EmailAPadded == <<" ", "a", "@", "b", " ">>
EmailC == <<"c", "@", "b">>
EmailBad == <<"a", "b">>

RegisterRequest(e, pw, cpw) ==
  [op |-> "register", Email |-> e, Password |-> pw, ConfirmPassword |-> cpw]

LoginRequest(e, pw) == [op |-> "login", Email |-> e, Password |-> pw]

\* requests sent one after the other
RegisterRequests ==
  {RegisterRequest(e, PwA, PwA) : e \in {EmailA, EmailAUpper, EmailAPadded, EmailBad}}
  \cup {RegisterRequest(EmailC, PwB, PwB),
        RegisterRequest(EmailC, PwA, PwB),
        RegisterRequest(EmailC, PwShort, PwShort)}

LoginRequests ==
  {LoginRequest(e, pw) : e \in {EmailA, EmailAUpper, EmailAPadded, EmailC, EmailBad},
                         pw \in {PwA, PwB, PwBlank}}

\* the time between two requests: around the lifetime of a token
TickSteps == {ExpirationMinutes - 1, ExpirationMinutes, ExpirationMinutes + 1}

\* requests sent concurrently
ConcurrentRegisterRequests ==
  {RegisterRequest(EmailA, PwA, PwA),
   RegisterRequest(EmailAUpper, PwB, PwB),
   RegisterRequest(EmailC, PwA, PwA)}

ConcurrentLoginRequests == {LoginRequest(EmailAPadded, PwB)}

\* requests of the client holding a token
TokenRegisterRequests ==
  {RegisterRequest(EmailA, PwA, PwA), RegisterRequest(EmailC, PwA, PwA)}

TokenLoginRequests == {LoginRequest(EmailAPadded, PwA), LoginRequest(EmailC, PwA)}

\* the two accounts of the task specifications, as register stores them
Alice == [Id |-> 1, Email |-> EmailA, PasswordHash |-> HashPassword(PwA, 1), CreatedAt |-> 0]
Carol == [Id |-> 2, Email |-> EmailC, PasswordHash |-> HashPassword(PwA, 1), CreatedAt |-> 0]
UserIds == {Alice.Id, Carol.Id}
TaskIds == 1..MaxTasks

CreateTaskRequest(title, description, dueDate, priority) ==
  [Title |-> title, Description |-> description, DueDate |-> dueDate, Priority |-> priority]

UpdateTaskRequest(title, description, dueDate, priority, isCompleted) ==
  [Title |-> title, Description |-> description, DueDate |-> dueDate,
   Priority |-> priority, IsCompleted |-> isCompleted]

\* the query string of GET api/tasks: every key may be left out
TaskQueryParams(isCompleted, priority, dueBefore, dueAfter, search, sortBy, sortDirection) ==
  [IsCompleted |-> isCompleted, Priority |-> priority, DueBefore |-> dueBefore,
   DueAfter |-> dueAfter, Search |-> search, SortBy |-> sortBy,
   SortDirection |-> sortDirection]

CreateTaskRequests ==
  {CreateTaskRequest(<<"a">>, Null, Null, Null),
   CreateTaskRequest(<<" ", "B">>, Null, Some(1), Some(3))}

UpdateTaskRequests ==
  {UpdateTaskRequest(Null, Null, Null, Null, Some(TRUE))}

Filters ==
  {<<Null, Null, Null, Null, Null>>,
   <<Some(TRUE), Null, Null, Null, Null>>,
   <<Some(FALSE), Some(3), Null, Null, Null>>,
   <<Null, Null, Some(1), Null, Some(<<"b">>)>>}

Sortings == {<<Some(SortByCreatedAt), Some(Desc)>>, <<Some(SortByPriority), Some(Asc)>>}

TaskQueries ==
  {TaskQueryParams(f[1], f[2], f[3], f[4], f[5], o[1], o[2]) : f \in Filters, o \in Sortings}

\* a row of the Tasks table
StoredTask(id, userId, title, description, dueDate, priority, isCompleted, createdAt, updatedAt) ==
  [Id |-> id, UserId |-> userId, Title |-> title, Description |-> description,
   DueDate |-> dueDate, Priority |-> priority, IsCompleted |-> isCompleted,
   CreatedAt |-> createdAt, UpdatedAt |-> updatedAt]

\* rows that create, update and toggle can have stored: titles trimmed, a
\* completed task updated after it was created, keys in order of creation
StoredTasks ==
  {StoredTask(1, Alice.Id, <<"A", "b">>, Null, Null, 2, FALSE, 0, Null),
   StoredTask(2, Alice.Id, <<"c">>, Some(<<"x", "B">>), Some(2), 3, TRUE, 1, Some(2)),
   StoredTask(3, Alice.Id, <<"d", " ", "e">>, Null, Some(3), 2, FALSE, 1, Null),
   StoredTask(4, Carol.Id, <<"a", "b">>, Null, Some(2), 3, TRUE, 2, Some(2))}

ListFilters ==
  {<<Null, Null, Null, Null, Null>>,
   <<Some(TRUE), Null, Null, Null, Null>>,
   <<Some(FALSE), Some(2), Null, Null, Null>>,
   <<Null, Some(3), Null, Null, Null>>,
   <<Null, Some(0), Null, Null, Null>>,
   <<Null, Null, Some(2), Null, Null>>,
   <<Null, Null, Null, Some(3), Null>>,
   <<Null, Null, Some(2), Some(2), Null>>,
   <<Null, Null, Null, Null, Some(<<"A", "B">>)>>,
   <<Null, Null, Null, Null, Some(<<"b">>)>>,
   <<Null, Null, Null, Null, Some(<<" ">>)>>}

ListSortings ==
  {<<Null, Null>>,
   <<Some(SortByDueDate), Some(Asc)>>,
   <<Some(SortByDueDate), Some(Desc)>>,
   <<Some(<<"D", "U", "E", "D", "A", "T", "E">>), Null>>,
   <<Some(SortByPriority), Some(Desc)>>,
   <<Some(SortByTitle), Some(Asc)>>,
   <<Some(SortByCreatedAt), Some(<<"u", "p">>)>>,
   <<Some(<<"f", "o", "o">>), Some(Asc)>>,
   <<Some(<<"f", "o", "o">>), Some(Desc)>>,
   <<Some(<<"f", "o", "o">>), Null>>,
   <<Some(<<>>), Some(Asc)>>}

\* every filter under the default sorting, and every sorting of the whole list
\* and of a searched list
ListQueries ==
  {TaskQueryParams(f[1], f[2], f[3], f[4], f[5], Null, Null) : f \in ListFilters}
  \cup {TaskQueryParams(Null, Null, Null, Null, s, o[1], o[2]) :
          s \in {Null, Some(<<"b">>)}, o \in ListSortings}

\* create requests around the limits of the title
TitledCreateTaskRequests ==
  {CreateTaskRequest(<<"a">>, Null, Null, Null),
   CreateTaskRequest(<<" ", "B", " ">>, Some(<<" ", "d", " ">>), Some(1), Some(3)),
   CreateTaskRequest(Rep("a", TitleMaxLength), Null, Null, Some(1)),
   CreateTaskRequest(Rep("a", TitleMaxLength + 1), Null, Null, Null),
   CreateTaskRequest(<<" ">> \o Rep("a", TitleMaxLength), Null, Null, Null),
   CreateTaskRequest(<<" ", "\t">>, Null, Null, Null),
   CreateTaskRequest(<<>>, Null, Null, Null),
   CreateTaskRequest(<<"a">>, Null, Null, Some(4))}

\* a task with no field at its default, and updates of one field each
FilledCreateTaskRequests ==
  {CreateTaskRequest(<<"a">>, Some(<<"d">>), Some(1), Some(3))}

FieldUpdateTaskRequests ==
  {UpdateTaskRequest(Null, Null, Null, Null, Null),
   UpdateTaskRequest(Some(<<" ", "z", " ">>), Null, Null, Null, Null),
   UpdateTaskRequest(Null, Some(<<"e">>), Null, Null, Null),
   UpdateTaskRequest(Null, Null, Some(2), Null, Null),
   UpdateTaskRequest(Null, Null, Null, Some(1), Null),
   UpdateTaskRequest(Null, Null, Null, Null, Some(TRUE)),
   UpdateTaskRequest(Null, Null, Null, Some(5), Null)}

\* an update that carries no field, and one that completes the task
StampUpdateTaskRequests ==
  {UpdateTaskRequest(Null, Null, Null, Null, Null),
   UpdateTaskRequest(Null, Null, Null, Null, Some(TRUE))}

\* updates of the title around its limits
TitleUpdateTaskRequests ==
  {UpdateTaskRequest(Some(<<" ", "z", " ">>), Null, Null, Null, Null),
   UpdateTaskRequest(Some(Rep("a", TitleMaxLength)), Null, Null, Null, Null),
   UpdateTaskRequest(Some(Rep("a", TitleMaxLength + 1)), Null, Null, Null, Null),
   UpdateTaskRequest(Some(<<" ", "\t">>), Null, Null, Null, Null),
   UpdateTaskRequest(Some(<<>>), Null, Null, Null, Null),
   UpdateTaskRequest(Null, Null, Null, Null, Some(TRUE))}

-----------------------------------------------------------------------------
(* The browser before the application is opened *)

\* the initial value of useState in AuthProvider
InitialAuthState ==
  [user |-> Null, token |-> Null, isAuthenticated |-> FALSE, isLoading |-> TRUE]

\* the value "all" of the priority select
FilterAll == <<"a", "l", "l">>

\* the initial values of useState in TaskList
InitialTaskList ==
  [searchQuery |-> <<>>, filterStatus |-> "all", filterPriority |-> FilterAll,
   sortBy |-> SortByCreatedAt, tasks |-> <<>>,
   stats |-> [total |-> 0, completed |-> 0, pending |-> 0],
   isLoading |-> TRUE, error |-> Null, mounted |-> FALSE, fetches |-> <<>>]

EmptyStorage == [token |-> Null, user |-> Null]

ClientIdle ==
  /\ localStorage = EmptyStorage
  /\ authState = InitialAuthState
  /\ location = "/"
  /\ taskList = InitialTaskList
  /\ outbox = [p \in Procs |-> Null]

-----------------------------------------------------------------------------
(* The axios client: a call of the frontend takes a request slot, the server
   serves it there, and the call resumes with the slot's response *)

\* the bearer of the Authorization header read, validated, and accepted
Authorized(bearer, t) ==
  /\ HasValue(bearer)
  /\ HandleAuthenticate(WriteToken(ValueOf(bearer)), t) = "Success"
  /\ HasValue(GetCurrentUserId(ValueOf(bearer)))

\* [Authorize] on TasksController: a request without an accepted bearer is
\* answered by OnChallenge and reaches no action
Challenged(p, r) ==
  /\ TaskFrame(p, r)
  /\ resp' = [resp EXCEPT ![p] = Challenge]
  /\ UNCHANGED <<tasks, nextTaskId>>

\* a slot no call of the frontend awaits and no handler runs in
FreeSlot(p) == outbox[p] = Null /\ pc[p] # "saving"

\* apiClient.get / post / ...: the request interceptor attaches the token of
\* localStorage, and the request leaves on slot p
Send(p, call) ==
  /\ FreeSlot(p)
  /\ outbox' = [outbox EXCEPT ![p] = Some(call)]
  /\ pc' = [pc EXCEPT ![p] = "idle"]
  /\ req' = [req EXCEPT ![p] = NoReq]
  /\ resp' = [resp EXCEPT ![p] = NoResp]
  /\ pending' = [pending EXCEPT ![p] = Null]
  /\ steps' = [steps EXCEPT ![p] = <<>>]
  /\ auth' = NoAuth
  /\ UNCHANGED <<users, nextUserId, tasks, nextTaskId, now, isDevelopment>>

\* the response of slot p has arrived for the call that awaits it
Arrived(p, api) ==
  /\ HasValue(outbox[p])
  /\ ValueOf(outbox[p]).api = api
  /\ pc[p] = "done"

\* what the arrival of a response leaves alone
Receive(p) ==
  /\ auth' = NoAuth
  /\ UNCHANGED <<users, nextUserId, tasks, nextTaskId, now, isDevelopment,
                 pc, req, pending, resp, steps>>

\* the server takes the tasks request waiting on slot p
ServeGetTasks(p) ==
  /\ HasValue(outbox[p])
  /\ pc[p] = "idle"
  /\ LET call == ValueOf(outbox[p])
     IN  /\ call.api = "getTasks"
         /\ IF Authorized(call.bearer, now)
            THEN GetTasks(p, ValueOf(GetCurrentUserId(ValueOf(call.bearer))), call.params)
            ELSE Challenged(p, [op |-> "list", userId |-> 0, query |-> call.params])

-----------------------------------------------------------------------------
(* AuthProvider, the routes of App, and the response interceptor *)

\* JSON.stringify and JSON.parse of the user entry; an entry that is not the
\* text of a value makes JSON.parse throw
JsonStringify(value) == <<"json", value>>
JsonParses(text) == Len(text) = 2
JsonParse(text) == text[2]

\* the pages on which the interceptor does not redirect
AuthPages == {"/login", "/register"}
Paths == {"/"} \cup AuthPages

\* AuthProvider's effect initAuth on the entries of localStorage
InitAuth(storage) ==
  LET idle == [InitialAuthState EXCEPT !.isLoading = FALSE]
  IN  IF HasValue(storage.token) /\ HasValue(storage.user)
      THEN IF JsonParses(ValueOf(storage.user))
           THEN [storage |-> storage,
                 state |-> [user |-> Some(JsonParse(ValueOf(storage.user))),
                            token |-> storage.token,
                            isAuthenticated |-> TRUE, isLoading |-> FALSE]]
           ELSE [storage |-> EmptyStorage, state |-> idle]
      ELSE [storage |-> storage, state |-> idle]

\* ProtectedRoute around Home: without a session "/" renders Navigate to /login
Routed(path, state) == IF path = "/" /\ ~state.isAuthenticated THEN "/login" ELSE path

\* the document at path is loaded: the calls in flight are gone, AuthProvider
\* mounts on the given storage and the route is rendered
PageLoad(path, storage) ==
  LET init == InitAuth(storage)
  IN  /\ localStorage' = init.storage
      /\ authState' = init.state
      /\ location' = Routed(path, init.state)
      /\ taskList' = InitialTaskList
      /\ outbox' = [p \in Procs |-> Null]

\* the response interceptor: a 401 removes both entries of localStorage
AfterInterceptor(response) ==
  IF response.status = 401 THEN EmptyStorage ELSE localStorage

\* ... and sets window.location.href unless an auth page is shown
RedirectsToLogin(response) == response.status = 401 /\ location \notin AuthPages

\* handleAuthSuccess, then navigate(redirectPath) of useAuthSubmit
HandleAuthSuccess(p, response) ==
  /\ localStorage' = [token |-> Some(response.Token),
                      user |-> Some(JsonStringify(response.User))]
  /\ authState' = [user |-> Some(response.User), token |-> Some(response.Token),
                   isAuthenticated |-> TRUE, isLoading |-> FALSE]
  /\ location' = "/"
  /\ taskList' = InitialTaskList
  /\ outbox' = [outbox EXCEPT ![p] = Null]

\* login and register of AuthProvider from the return of authApi on
AuthResolved(p, api) ==
  /\ Arrived(p, api)
  /\ Receive(p)
  /\ IF RedirectsToLogin(resp[p])
     THEN PageLoad("/login", AfterInterceptor(resp[p]))
     ELSE IF resp[p].status \in {200, 201} /\ HasValue(resp[p].body)
     THEN HandleAuthSuccess(p, ValueOf(resp[p].body))
     ELSE /\ localStorage' = AfterInterceptor(resp[p])
          /\ outbox' = [outbox EXCEPT ![p] = Null]
          /\ UNCHANGED <<authState, location, taskList>>

\* the page is opened or reloaded at path
Open(path) ==
  /\ PageLoad(path, localStorage)
  /\ auth' = NoAuth
  /\ UNCHANGED <<users, nextUserId, tasks, nextTaskId, now, isDevelopment,
                 pc, req, pending, resp, steps>>

\* the link between the two auth pages
FollowLink(path) ==
  /\ ~authState.isLoading
  /\ location \in AuthPages
  /\ path \in AuthPages \ {location}
  /\ location' = path
  /\ auth' = NoAuth
  /\ UNCHANGED <<users, nextUserId, tasks, nextTaskId, now, isDevelopment,
                 pc, req, pending, resp, steps,
                 localStorage, authState, taskList, outbox>>

\* the Login page submits: AuthProvider.login up to the await
LoginSubmit(p, r) ==
  /\ ~authState.isLoading
  /\ location = "/login"
  /\ Send(p, [api |-> "login", data |-> r, bearer |-> localStorage.token])
  /\ UNCHANGED <<localStorage, authState, location, taskList>>

LoginResolved(p) == AuthResolved(p, "login")

\* the Register page submits: AuthProvider.register up to the await
RegisterSubmit(p, r) ==
  /\ ~authState.isLoading
  /\ location = "/register"
  /\ Send(p, [api |-> "register", data |-> r, bearer |-> localStorage.token])
  /\ UNCHANGED <<localStorage, authState, location, taskList>>

RegisterResolved(p) == AuthResolved(p, "register")

\* the Logout button of the Header on Home; ProtectedRoute then renders
\* Navigate to /login, and the fetches in flight lose their component
Logout ==
  /\ ~authState.isLoading
  /\ authState.isAuthenticated
  /\ location = "/"
  /\ localStorage' = EmptyStorage
  /\ authState' = [user |-> Null, token |-> Null,
                   isAuthenticated |-> FALSE, isLoading |-> FALSE]
  /\ location' = "/login"
  /\ taskList' = InitialTaskList
  /\ outbox' = [p \in Procs |->
                  IF HasValue(outbox[p]) /\ ValueOf(outbox[p]).api = "getTasks"
                  THEN Some([ValueOf(outbox[p]) EXCEPT !.n = 0])
                  ELSE outbox[p]]
  /\ auth' = NoAuth
  /\ UNCHANGED <<users, nextUserId, tasks, nextTaskId, now, isDevelopment,
                 pc, req, pending, resp, steps>>

\* the server takes the login or register request waiting on slot p
ServeLogin(p) ==
  /\ HasValue(outbox[p])
  /\ pc[p] = "idle"
  /\ ValueOf(outbox[p]).api = "login"
  /\ Login(p, ValueOf(outbox[p]).data)

ServeRegister(p) ==
  /\ HasValue(outbox[p])
  /\ pc[p] = "idle"
  /\ ValueOf(outbox[p]).api = "register"
  /\ RegisterBegin(p, ValueOf(outbox[p]).data)

-----------------------------------------------------------------------------
(* TaskList: the filters, the displayed tasks and stats, and fetchTasks *)

\* the params fetchTasks builds from the filter state
FetchParams(tl) ==
  TaskQueryParams(
    IF tl.filterStatus # "all" THEN Some(tl.filterStatus = "completed") ELSE Null,
    IF tl.filterPriority # FilterAll THEN Some(ParseDigits(tl.filterPriority)) ELSE Null,
    Null, Null,
    IF Trim(tl.searchQuery) # <<>> THEN Some(Trim(tl.searchQuery)) ELSE Null,
    Some(tl.sortBy), Some(Desc))

\* fetchTasks up to the await of tasksApi.getTasks, run by the effect after a
\* render with the filter state tl
FetchTasks(p, tl) ==
  /\ Len(tl.fetches) < MaxFetches
  /\ Send(p, [api |-> "getTasks", params |-> FetchParams(tl), bearer |-> localStorage.token,
              n |-> Len(tl.fetches) + 1])
  /\ taskList' = [tl EXCEPT !.isLoading = TRUE, !.error = Null,
                            !.fetches = Append(@, [params |-> FetchParams(tl),
                                                   result |-> Null])]
  /\ UNCHANGED <<localStorage, authState, location>>

\* the component is mounted: the effect runs fetchTasks
Mount(p) ==
  /\ ~taskList.mounted
  /\ FetchTasks(p, [taskList EXCEPT !.mounted = TRUE])

\* onChange of the search box
SetSearchQuery(p, v) ==
  /\ taskList.mounted
  /\ v # taskList.searchQuery
  /\ FetchTasks(p, [taskList EXCEPT !.searchQuery = v])

\* onChange of the status select
SetFilterStatus(p, v) ==
  /\ taskList.mounted
  /\ v # taskList.filterStatus
  /\ FetchTasks(p, [taskList EXCEPT !.filterStatus = v])

\* onChange of the priority select
SetFilterPriority(p, v) ==
  /\ taskList.mounted
  /\ v # taskList.filterPriority
  /\ FetchTasks(p, [taskList EXCEPT !.filterPriority = v])

\* onChange of the sort select
SetSortBy(p, v) ==
  /\ taskList.mounted
  /\ v # taskList.sortBy
  /\ FetchTasks(p, [taskList EXCEPT !.sortBy = v])

\* fetchTasks from the return of tasksApi.getTasks on, the response having
\* passed the response interceptor; a call whose component is gone (n = 0)
\* sets no state
FetchResolved(p) ==
  /\ Arrived(p, "getTasks")
  /\ Receive(p)
  /\ IF RedirectsToLogin(resp[p])
     THEN PageLoad("/login", AfterInterceptor(resp[p]))
     ELSE /\ outbox' = [outbox EXCEPT ![p] = Null]
          /\ localStorage' = AfterInterceptor(resp[p])
          /\ UNCHANGED <<authState, location>>
          /\ LET n == ValueOf(outbox[p]).n
             IN  IF n = 0
                 THEN UNCHANGED taskList
                 ELSE LET recorded == [taskList EXCEPT !.fetches[n].result = Some(resp[p]),
                                                       !.isLoading = FALSE]
                      IN  taskList' =
                            IF resp[p].status = 200
                            THEN LET data == ValueOf(resp[p].body)
                                 IN  [recorded EXCEPT
                                        !.tasks = data.Tasks,
                                        !.stats = [total |-> data.TotalCount,
                                                   completed |-> data.CompletedCount,
                                                   pending |-> data.PendingCount]]
                            ELSE [recorded EXCEPT !.error = Some(resp[p].message)]

\* what the user types and selects
SearchQueries == {<<>>, <<"b">>, <<"b", " ">>}
FilterStatuses == {"all", "pending", "completed"}
FilterPriorities == {FilterAll, <<"3">>}
SortByOptions == {SortByCreatedAt, SortByTitle}

\* what localStorage may hold when the page is first opened: nothing, the
\* entries of an earlier session, the token alone, or a user entry that is
\* not JSON
InitialStorages ==
  LET session == GenerateAuthResponse(Alice, 0, 1)
  IN  {EmptyStorage,
       [token |-> Some(session.Token), user |-> Some(JsonStringify(session.User))],
       [token |-> Some(session.Token), user |-> Null],
       [token |-> Some(session.Token), user |-> Some(<<"{">>)]}

AuthLoginRequests == {LoginRequest(EmailA, PwA), LoginRequest(EmailA, PwB)}
AuthRegisterRequests == {RegisterRequest(EmailC, PwB, PwB), RegisterRequest(EmailA, PwA, PwA)}

-----------------------------------------------------------------------------
(* Specifications *)

Init ==
  /\ ClientIdle
  /\ users = {}
  /\ nextUserId = 1
  /\ tasks = {}
  /\ nextTaskId = 1
  /\ now = 0
  /\ isDevelopment \in BOOLEAN
  /\ pc = [p \in Procs |-> "idle"]
  /\ req = [p \in Procs |-> NoReq]
  /\ pending = [p \in Procs |-> Null]
  /\ resp = [p \in Procs |-> NoResp]
  /\ steps = [p \in Procs |-> <<>>]
  /\ auth = NoAuth

\* the identity service under concurrent requests
Next ==
  \/ \E p \in Procs, r \in ConcurrentRegisterRequests : RegisterBegin(p, r)
  \/ \E p \in Procs : RegisterSave(p)
  \/ \E p \in Procs, r \in ConcurrentLoginRequests : Login(p, r)

Spec == Init /\ [][Next]_vars

\* the identity service serving one request at a time
SeqNext ==
  \/ \E r \in RegisterRequests : RegisterBegin(1, r)
  \/ RegisterSave(1)
  \/ \E r \in LoginRequests : Login(1, r)

SeqSpec == Init /\ [][SeqNext]_vars

\* one client that registers or logs in and presents its token as time passes
TokenNext ==
  \/ \E r \in TokenRegisterRequests : RegisterBegin(1, r)
  \/ RegisterSave(1)
  \/ \E r \in TokenLoginRequests : Login(1, r)
  \/ Authenticate(1)
  \/ \E d \in TickSteps : Tick(d)

TokenSpec == Init /\ [][TokenNext]_vars

\* two registered users work on their tasks, one request at a time
TaskInit ==
  /\ ClientIdle
  /\ users = {Alice, Carol}
  /\ nextUserId = 3
  /\ tasks = {}
  /\ nextTaskId = 1
  /\ now = 0
  /\ isDevelopment = FALSE
  /\ pc = [p \in Procs |-> "idle"]
  /\ req = [p \in Procs |-> NoReq]
  /\ pending = [p \in Procs |-> Null]
  /\ resp = [p \in Procs |-> NoResp]
  /\ steps = [p \in Procs |-> <<>>]
  /\ auth = NoAuth

TaskNext ==
  \/ \E u \in UserIds, q \in TaskQueries : GetTasks(1, u, q)
  \/ \E u \in UserIds, id \in TaskIds : GetTask(1, u, id)
  \/ \E u \in UserIds, b \in CreateTaskRequests : CreateTask(1, u, b)
  \/ \E u \in UserIds, id \in TaskIds, b \in UpdateTaskRequests : UpdateTask(1, u, id, b)
  \/ \E u \in UserIds, id \in TaskIds : DeleteTask(1, u, id)
  \/ \E u \in UserIds, id \in TaskIds : ToggleCompletion(1, u, id)

TaskSpec == TaskInit /\ [][TaskNext]_vars

\* the requests made while a client holds a token
SessionClientRequests == {RegisterRequest(EmailA, PwA, PwA)}
SessionLoginRequests == {LoginRequest(EmailA, PwA)}
SessionRegisterRequests == {RegisterRequest(EmailC, PwB, PwB)}
SessionCreateTaskRequests == {CreateTaskRequest(<<"a">>, Null, Null, Null)}
SessionTaskQueries == {TaskQueryParams(Null, Null, Null, Null, Null, Null, Null)}
\* the client of slot 1, once registered
SessionUsers == {u.Id : u \in {x \in users : x.Email = EmailA}}

\* a client registers in slot 1 and presents its token as time passes, while
\* other requests (a second login of the same user, another registration, the
\* user's task calls) are served in slot 2
SessionNext ==
  \/ \E r \in SessionClientRequests : RegisterBegin(1, r)
  \/ RegisterSave(1)
  \/ Authenticate(1)
  \/ Tick(ExpirationMinutes)
  \/ \E r \in SessionRegisterRequests : RegisterBegin(2, r)
  \/ RegisterSave(2)
  \/ \E r \in SessionLoginRequests : Login(2, r)
  \/ \E u \in SessionUsers, q \in SessionTaskQueries : GetTasks(2, u, q)
  \/ \E u \in SessionUsers : GetTask(2, u, 1)
  \/ \E u \in SessionUsers, b \in SessionCreateTaskRequests :
       nextTaskId = 1 /\ CreateTask(2, u, b)
  \/ \E u \in SessionUsers, b \in UpdateTaskRequests : UpdateTask(2, u, 1, b)
  \/ \E u \in SessionUsers : DeleteTask(2, u, 1)
  \/ \E u \in SessionUsers : ToggleCompletion(2, u, 1)

SessionSpec == Init /\ [][SessionNext]_vars

\* list calls on a store that holds any of a set of rows
ListInit ==
  /\ ClientIdle
  /\ users = {Alice, Carol}
  /\ nextUserId = 3
  /\ tasks \in SUBSET StoredTasks
  /\ nextTaskId = Cardinality(StoredTasks) + 1
  /\ now = 3
  /\ isDevelopment = FALSE
  /\ pc = [p \in Procs |-> "idle"]
  /\ req = [p \in Procs |-> NoReq]
  /\ pending = [p \in Procs |-> Null]
  /\ resp = [p \in Procs |-> NoResp]
  /\ steps = [p \in Procs |-> <<>>]
  /\ auth = NoAuth

ListNext == \E u \in UserIds, q \in ListQueries : GetTasks(1, u, q)

ListSpec == ListInit /\ [][ListNext]_vars

\* two registered users create tasks as time passes
CreateNext ==
  \/ \E u \in UserIds, b \in TitledCreateTaskRequests : CreateTask(1, u, b)
  \/ Tick(ExpirationMinutes)

CreateSpec == TaskInit /\ [][CreateNext]_vars

\* two registered users create tasks, and the first updates the first task
\* field by field
UpdateNext ==
  \/ \E u \in UserIds, b \in FilledCreateTaskRequests : CreateTask(1, u, b)
  \/ \E b \in FieldUpdateTaskRequests : UpdateTask(1, Alice.Id, 1, b)

UpdateSpec == TaskInit /\ [][UpdateNext]_vars

\* the first user creates tasks; both users read, update, toggle and delete
\* by id as time passes
StampNext ==
  \/ \E b \in SessionCreateTaskRequests : CreateTask(1, Alice.Id, b)
  \/ \E u \in UserIds, id \in TaskIds : GetTask(1, u, id)
  \/ \E u \in UserIds, id \in TaskIds, b \in StampUpdateTaskRequests : UpdateTask(1, u, id, b)
  \/ \E u \in UserIds, id \in TaskIds : ToggleCompletion(1, u, id)
  \/ \E u \in UserIds, id \in TaskIds : DeleteTask(1, u, id)
  \/ Tick(ExpirationMinutes)

StampSpec == TaskInit /\ [][StampNext]_vars

\* the first user creates tasks and retitles them
TitleNext ==
  \/ \E b \in TitledCreateTaskRequests : CreateTask(1, Alice.Id, b)
  \/ \E id \in TaskIds, b \in TitleUpdateTaskRequests : UpdateTask(1, Alice.Id, id, b)

TitleSpec == TaskInit /\ [][TitleNext]_vars

\* the first user lists its tasks in slot 1 while its other requests create,
\* update, toggle and delete them in slot 2
ListRaceNext ==
  \/ \E q \in SessionTaskQueries : GetTasksBegin(1, Alice.Id, q)
  \/ GetTasksCountCompleted(1)
  \/ GetTasksToList(1)
  \/ \E b \in SessionCreateTaskRequests : CreateTask(2, Alice.Id, b)
  \/ \E id \in TaskIds, b \in UpdateTaskRequests : UpdateTask(2, Alice.Id, id, b)
  \/ \E id \in TaskIds : ToggleCompletion(2, Alice.Id, id)
  \/ \E id \in TaskIds : DeleteTask(2, Alice.Id, id)

ListRaceSpec == TaskInit /\ [][ListRaceNext]_vars

\* the first user creates tasks, and toggles and deletes them from two
\* requests at a time
ToggleRaceNext ==
  \/ \E p \in Procs, b \in SessionCreateTaskRequests : CreateTask(p, Alice.Id, b)
  \/ \E p \in Procs, id \in TaskIds : ToggleBegin(p, Alice.Id, id)
  \/ \E p \in Procs : ToggleSave(p)
  \/ \E p \in Procs, id \in TaskIds : DeleteTask(p, Alice.Id, id)

ToggleRaceSpec == TaskInit /\ [][ToggleRaceNext]_vars

\* the first user, logged in, looks at its tasks and changes the filters
\* while fetches are in flight
TaskListInit ==
  /\ users = {Alice, Carol}
  /\ nextUserId = 3
  /\ tasks = StoredTasks
  /\ nextTaskId = Cardinality(StoredTasks) + 1
  /\ now = 3
  /\ isDevelopment = FALSE
  /\ pc = [p \in Procs |-> "idle"]
  /\ req = [p \in Procs |-> NoReq]
  /\ pending = [p \in Procs |-> Null]
  /\ resp = [p \in Procs |-> NoResp]
  /\ steps = [p \in Procs |-> <<>>]
  /\ auth = NoAuth
  /\ \E g \in Guids :
       LET response == GenerateAuthResponse(Alice, now, g)
       IN  /\ localStorage = [token |-> Some(response.Token),
                              user |-> Some(JsonStringify(response.User))]
           /\ authState = [user |-> Some(response.User), token |-> Some(response.Token),
                           isAuthenticated |-> TRUE, isLoading |-> FALSE]
  /\ location = "/"
  /\ taskList = InitialTaskList
  /\ outbox = [p \in Procs |-> Null]

TaskListNext ==
  \/ \E p \in Procs : Mount(p)
  \/ \E p \in Procs, v \in SearchQueries : SetSearchQuery(p, v)
  \/ \E p \in Procs, v \in FilterStatuses : SetFilterStatus(p, v)
  \/ \E p \in Procs, v \in FilterPriorities : SetFilterPriority(p, v)
  \/ \E p \in Procs, v \in SortByOptions : SetSortBy(p, v)
  \/ \E p \in Procs : ServeGetTasks(p)
  \/ \E p \in Procs : FetchResolved(p)

TaskListSpec == TaskListInit /\ [][TaskListNext]_vars

\* one browser: the page is opened, the user logs in, registers, logs out
\* and looks at Home as time passes; auth calls use slot 1, fetches slot 2
AuthInit ==
  /\ users = {Alice}
  /\ nextUserId = 2
  /\ tasks = {}
  /\ nextTaskId = 1
  /\ now = 0
  /\ isDevelopment = FALSE
  /\ pc = [p \in Procs |-> "idle"]
  /\ req = [p \in Procs |-> NoReq]
  /\ pending = [p \in Procs |-> Null]
  /\ resp = [p \in Procs |-> NoResp]
  /\ steps = [p \in Procs |-> <<>>]
  /\ auth = NoAuth
  /\ localStorage \in InitialStorages
  /\ authState = InitialAuthState
  /\ location = "/"
  /\ taskList = InitialTaskList
  /\ outbox = [p \in Procs |-> Null]

AuthNext ==
  \/ \E path \in Paths : Open(path)
  \/ \E path \in AuthPages : FollowLink(path)
  \/ \E r \in AuthLoginRequests : LoginSubmit(1, r)
  \/ ServeLogin(1)
  \/ LoginResolved(1)
  \/ \E r \in AuthRegisterRequests : RegisterSubmit(1, r)
  \/ ServeRegister(1)
  \/ RegisterSave(1)
  \/ RegisterResolved(1)
  \/ Logout
  \/ location = "/" /\ authState.isAuthenticated /\ Mount(2)
  \/ ServeGetTasks(2)
  \/ FetchResolved(2)
  \/ Tick(ExpirationMinutes + 1)

AuthSpec == AuthInit /\ [][AuthNext]_vars

-----
(* Properties of the identity service *)

\* what belongs to request slot p
SlotOf(p) == <<pc[p], req[p], pending[p], resp[p], steps[p]>>

\* the step is a step of the handler running in slot p
Acted(p) == SlotOf(p)' # SlotOf(p)

Called(p, name) == \E i \in 1..Len(steps[p]) : steps[p][i] = name

StoredWithEmail(email) == {u \in users : u.Email = NormalizedEmail(email)}

\* a register call of slot p that passed the existence pre-check and has returned
PassedPreCheck(p) ==
  /\ pc[p] = "done"
  /\ req[p].op = "register"
  /\ Called(p, "SaveChangesAsync")

\* C3: when two register calls for the same normalized email both pass the
\* existence pre-check, exactly one persists a user and answers 201, and the
\* other is answered 409 Conflict, never 500.
C3_RaceLoserGetsConflict ==
  \A p, q \in Procs :
    ( /\ p # q
      /\ PassedPreCheck(p)
      /\ PassedPreCheck(q)
      /\ NormalizedEmail(req[p].Email) = NormalizedEmail(req[q].Email) )
    => /\ Cardinality(StoredWithEmail(req[p].Email)) = 1
       /\ {resp[p].status, resp[q].status} = {201, 409}

\* C4: a valid register call for an email whose normalized form is stored is
\* answered 409 Conflict and creates no user, whatever the case or the
\* surrounding white space of the email typed; a register call that no other
\* call overtakes is answered 201 and stores one user.
C4_SecondRegisterConflicts ==
  [][ \A p \in Procs :
        /\ ( /\ Acted(p)
             /\ pc[p] # "saving"
             /\ req'[p].op = "register"
             /\ RegisterRequestValid(req'[p]) )
           => IF StoredWithEmail(req'[p].Email) # {}
              THEN /\ pc'[p] = "done"
                   /\ resp'[p] = Response(409, "An account with this email already exists", Null)
                   /\ users' = users
              ELSE /\ pc'[p] = "saving"
                   /\ users' = users
        /\ ( /\ Acted(p)
             /\ pc[p] = "saving"
             /\ StoredWithEmail(req[p].Email) = {} )
           => /\ resp'[p].status = 201
              /\ \E u \in users' :
                   /\ users' = users \cup {u}
                   /\ u \notin users
                   /\ u.Email = NormalizedEmail(req[p].Email)
                   /\ ValueOf(resp'[p].body).User.Id = u.Id
    ]_vars

\* C4 witness: a register call that typed a variant of an email registered
\* before has been answered 409
C4_Witness ==
  \E p \in Procs :
    /\ pc[p] = "done" /\ req[p].op = "register" /\ resp[p].status = 409
    /\ req[p].Email # NormalizedEmail(req[p].Email)
    /\ Cardinality(StoredWithEmail(req[p].Email)) = 1

\* C5: no two stored users have the same normalized email, and every stored
\* email is in normalized form.
C5_EmailsUniqueAndNormalized ==
  /\ \A u, v \in users :
       NormalizedEmail(u.Email) = NormalizedEmail(v.Email) => u = v
  /\ \A u \in users : u.Email = NormalizedEmail(u.Email)

\* C5 witness: two users are stored and a register call lost a race on the index
C5_Witness ==
  /\ Cardinality(users) = 2
  /\ \E p \in Procs : PassedPreCheck(p) /\ resp[p].status = 500

\* the password the user registered with, recovered from the stored hash
RegisteredWith(u, password) ==
  \E salt \in Salts : u.PasswordHash = HashPassword(password, salt)

FailedLogin(p) ==
  /\ pc[p] = "done"
  /\ req[p].op = "login"
  /\ resp[p].body = Null

\* C7: two failed logins with the same request get the same response, whether
\* the email was not registered or the password was wrong.
C7_FailedLoginIndistinguishable ==
  \A p, q \in Procs :
    ( FailedLogin(p) /\ FailedLogin(q) /\ req[p] = req[q] ) => resp[p] = resp[q]

\* C7 witness: the same login request failed once on the lookup (the account
\* did not exist yet) and once on the password
C7_Witness ==
  \E p, q \in Procs :
    /\ FailedLogin(p) /\ FailedLogin(q) /\ req[p] = req[q]
    /\ steps[p] = <<"FirstOrDefaultAsync">>
    /\ steps[q] = <<"FirstOrDefaultAsync", "Verify">>

\* C8: every login that reaches the service verifies a password before it
\* returns, also when the lookup finds no user.
C8_VerifyOnEveryLogin ==
  \A p \in Procs :
    ( pc[p] = "done" /\ req[p].op = "login" /\ LoginRequestValid(req[p]) )
    => Called(p, "Verify")

-----------------------------------------------------------------------------
(* Properties of the token, checked under TokenSpec *)

\* the authentication just made presented the token of slot p's response
Presented(p) ==
  /\ auth.outcome # "None"
  /\ HasValue(resp[p].body)
  /\ auth.token = ValueOf(resp[p].body).Token

\* C9: a token issued by register or login for the user of the request's email,
\* presented unmodified no later than its expiry, authenticates as exactly
\* that user's id.
C9_TokenYieldsItsUser ==
  \A p \in Procs :
    ( Presented(p) /\ auth.at <= auth.token.exp )
    => /\ auth.outcome = "Success"
       /\ \E u \in StoredWithEmail(req[p].Email) :
            /\ auth.userId = Some(u.Id)
            /\ \A v \in users : v.Id = u.Id => v = u

\* C9 witness: the token of the second user registered has authenticated
C9_Witness ==
  \E p \in Procs :
    /\ Presented(p)
    /\ auth.outcome = "Success"
    /\ auth.userId = Some(2)
    /\ Cardinality(users) = 2

SignatureMismatch(bearer) ==
  CanReadToken(bearer) /\ bearer[3] # Sign(bearer[2], SecretKey)

\* the outcomes of a failed authentication
Rejections == {"Invalid", "Malformed", "Expired"}

\* C11: a token whose signature does not match its content is rejected as
\* Invalid and yields no identity, a malformed token is rejected as Malformed,
\* and two rejections of different categories (Invalid, Malformed, Expired) are
\* answered differently to the caller.
C11_RejectionsDistinguishable ==
  [][ /\ auth'.outcome # "None"
         => /\ SignatureMismatch(auth'.bearer)
                 => (auth'.outcome = "Invalid" /\ auth'.userId = Null)
            /\ ~CanReadToken(auth'.bearer) => auth'.outcome = "Malformed"
      /\ ( /\ auth.outcome \in Rejections
           /\ auth'.outcome \in Rejections
           /\ auth.outcome # auth'.outcome )
         => auth.response # auth'.response
    ]_vars

\* C12: authenticating a bearer writes no stored state, and its result is
\* fixed by the bearer and the time alone: the token issued to the client is
\* accepted as its user at every time up to its expiry and Expired after it,
\* whatever was registered, logged in or done to tasks since it was issued,
\* and a bearer that is not the issued token is rejected by its form alone.
C12_ValidationStateless ==
  [][ auth'.outcome # "None"
      => /\ UNCHANGED <<users, nextUserId, tasks, nextTaskId>>
         /\ LET token == ValueOf(resp[1].body).Token
            IN  IF auth'.bearer = WriteToken(token)
                THEN IF now <= token.exp
                     THEN /\ auth'.outcome = "Success"
                          /\ auth'.userId = Some(ValueOf(resp[1].body).User.Id)
                     ELSE auth'.outcome = "Expired"
                ELSE auth'.outcome =
                       (IF CanReadToken(auth'.bearer) THEN "Invalid" ELSE "Malformed")
    ]_vars

\* C12 witness: the client's token is accepted some time after it was issued,
\* after another user registered, a task was stored and the same user logged
\* in again and was issued a newer token
C12_Witness ==
  /\ auth.outcome = "Success"
  /\ auth.at > auth.token.iat
  /\ Cardinality(users) = 2
  /\ tasks # {}
  /\ req[2].op = "login"
  /\ resp[2].status = 200
  /\ ValueOf(resp[2].body).Token.nameid = auth.token.nameid
  /\ ValueOf(resp[2].body).Token.iat > auth.token.iat

-----------------------------------------------------------------------------
(* Properties of tenant isolation, checked under TaskSpec *)

OwnedBy(userId) == {t \in tasks : t.UserId = userId}

\* C1: every task a list call returns is owned by the caller, and the three
\* counts count tasks of the caller only, whatever the filters and the sorting.
C1_ListOnlyOwnTasks ==
  [][ \A p \in Procs :
        ( Acted(p) /\ req'[p].op = "list" /\ resp'[p].status = 200 )
        => LET userId == req'[p].userId
               body == ValueOf(resp'[p].body)
               matching == ApplyFilters(OwnedBy(userId), req'[p].query)
           IN  /\ \A i \in DOMAIN body.Tasks :
                    \E t \in OwnedBy(userId) : t.Id = body.Tasks[i].Id
               /\ body.TotalCount = Cardinality(matching)
               /\ body.CompletedCount = Cardinality({t \in matching : t.IsCompleted})
               /\ body.PendingCount = Cardinality({t \in matching : ~t.IsCompleted})
    ]_vars

\* C1 witness: a list call returned a task of the caller while another user's
\* task matching the same filters was stored
C1_Witness ==
  \E p \in Procs :
    /\ pc[p] = "done" /\ req[p].op = "list" /\ resp[p].status = 200
    /\ ValueOf(resp[p].body).TotalCount = 1
    /\ \E t \in tasks : t.UserId # req[p].userId /\ ApplyFilters({t}, req[p].query) = {t}
    /\ \E t \in tasks : t.UserId = req[p].userId /\ t.Id = ValueOf(resp[p].body).Tasks[1].Id

\* C2: get, update, delete and toggle of a task by a user who does not own it
\* are answered with the response given for an id that does not exist, and
\* leave the stored tasks as they are; the owner's calls succeed.
C2_ForeignTaskIsNotFound ==
  [][ \A p \in Procs :
        ( /\ Acted(p)
          /\ req'[p].op \in {"get", "update", "delete", "toggle"}
          /\ req'[p].op = "update" => UpdateTaskRequestValid(req'[p].body) )
        => LET target == {t \in tasks : t.Id = req'[p].id}
           IN  IF \E t \in target : t.UserId = req'[p].userId
               THEN /\ resp'[p].status = (IF req'[p].op = "delete" THEN 204 ELSE 200)
                    /\ req'[p].op # "delete"
                         => ValueOf(resp'[p].body).Id = req'[p].id
               ELSE /\ resp'[p] = Response(404, "Task not found", Null)
                    /\ tasks' = tasks
    ]_vars

\* C2 witness: a call on another user's stored task was answered 404
C2_Witness ==
  \E p \in Procs :
    /\ pc[p] = "done"
    /\ req[p].op \in {"update", "delete", "toggle"}
    /\ resp[p].status = 404
    /\ \E t \in tasks : t.Id = req[p].id /\ t.UserId # req[p].userId

-----------------------------------------------------------------------------
(* Properties of the task list, checked under ListSpec *)

\* sub occurs in s when letters are compared without regard to case
OccursIgnoringCase(sub, s) ==
  \E i \in 0..(Len(s) - Len(sub)) :
    \A k \in 1..Len(sub) : ToLowerChar(s[i + k]) = ToLowerChar(sub[k])

\* the task passes every filter of the query but the search
PassesFieldFilters(t, q) ==
  /\ HasValue(q.IsCompleted) => t.IsCompleted = ValueOf(q.IsCompleted)
  /\ HasValue(q.Priority) => t.Priority = ValueOf(q.Priority)
  /\ HasValue(q.DueBefore)
       => (HasValue(t.DueDate) /\ ValueOf(t.DueDate) <= ValueOf(q.DueBefore))
  /\ HasValue(q.DueAfter)
       => (HasValue(t.DueDate) /\ ValueOf(t.DueDate) >= ValueOf(q.DueAfter))

\* the search term occurs in the title or in the description of the task
PassesSearch(t, term) ==
  \/ OccursIgnoringCase(term, t.Title)
  \/ HasValue(t.Description) /\ OccursIgnoringCase(term, ValueOf(t.Description))

\* the list of slot p's response holds exactly the rows of the set, once each
ReturnsExactly(p, rows) ==
  LET body == ValueOf(resp'[p].body)
  IN  /\ Len(body.Tasks) = Cardinality(rows)
      /\ \A t \in rows : \E i \in DOMAIN body.Tasks : body.Tasks[i] = MapToResponse(t)

\* a list call of slot p was answered 200 in this step
Listed(p) == Acted(p) /\ req'[p].op = "list" /\ resp'[p].status = 200

Counts(body) == <<body.TotalCount, body.CompletedCount, body.PendingCount>>

\* the query with another sorting
SortedBy(q, o) == [q EXCEPT !.SortBy = o[1], !.SortDirection = o[2]]

\* C14: in every list response total is the number of tasks returned, completed
\* the number of those that are completed, pending the rest, so that pending +
\* completed = total; and the same filters under any other sorting give the
\* same three counts.
C14_CountsOfFilteredSet ==
  [][ \A p \in Procs :
        Listed(p)
        => LET body == ValueOf(resp'[p].body)
               q == req'[p].query
           IN  /\ body.TotalCount = Len(body.Tasks)
               /\ body.CompletedCount =
                    Cardinality({i \in DOMAIN body.Tasks : body.Tasks[i].IsCompleted})
               /\ body.PendingCount = body.TotalCount - body.CompletedCount
               /\ body.PendingCount + body.CompletedCount = body.TotalCount
               /\ \A o \in ListSortings :
                    LET other == BindTaskQueryParams(SortedBy(q, o))
                    IN  TaskQueryParamsValid(other)
                        => \A result \in GetTasksAsync(tasks, req'[p].userId, other) :
                             Counts(result) = Counts(body)
    ]_vars

\* C14 witness: a filtered list returned one completed and one pending task
\* and left out a task of the caller
C14_Witness ==
  \E p \in Procs :
    /\ pc[p] = "done" /\ req[p].op = "list" /\ resp[p].status = 200
    /\ Counts(ValueOf(resp[p].body)) = <<2, 1, 1>>
    /\ Cardinality(OwnedBy(req[p].userId)) = 3
    /\ req[p].query.SortBy = Some(SortByPriority)

\* the list call of slot p sorts by the due date
SortsByDueDate(p) ==
  ToLowerInvariant(BindTaskQueryParams(req'[p].query).SortBy)
    = ToLowerInvariant(SortByDueDate)

\* C15: in a list sorted by due date, ascending or descending, no task without
\* a due date comes before a task that has one.
C15_NoDueDateLast ==
  [][ \A p \in Procs :
        ( Listed(p) /\ SortsByDueDate(p) )
        => LET listed == ValueOf(resp'[p].body).Tasks
           IN  \A i, j \in DOMAIN listed :
                 ( ~HasValue(listed[i].DueDate) /\ HasValue(listed[j].DueDate) ) => j < i
    ]_vars

\* the sortBy values the switch of the list knows, compared without case
KnownSortBy ==
  {ToLowerInvariant(k) : k \in {SortByDueDate, SortByPriority, SortByCreatedAt, SortByTitle}}

\* a supplied sortBy that is none of the known ones
UnknownSortBy(q) ==
  HasValue(q.SortBy) /\ ToLowerInvariant(ValueOf(q.SortBy)) \notin KnownSortBy

\* the direction asked for is ascending / descending
AsksAscending(q) ==
  HasValue(q.SortDirection) /\ ToLowerInvariant(ValueOf(q.SortDirection)) = Asc
AsksDescending(q) ==
  HasValue(q.SortDirection) /\ ToLowerInvariant(ValueOf(q.SortDirection)) = Desc

\* the tasks of slot p's response come in order of creation
ByCreatedAtAscending(p) ==
  LET listed == ValueOf(resp'[p].body).Tasks
  IN  \A i, j \in DOMAIN listed : i < j => listed[i].CreatedAt <= listed[j].CreatedAt
ByCreatedAtDescending(p) ==
  LET listed == ValueOf(resp'[p].body).Tasks
  IN  \A i, j \in DOMAIN listed : i < j => listed[i].CreatedAt >= listed[j].CreatedAt

\* the filters of the query pass validation
FiltersValid(q) ==
  /\ HasValue(q.Priority) => ValueOf(q.Priority) \in 1..3
  /\ HasValue(q.Search) => Len(ValueOf(q.Search)) <= SearchMaxLength

-----------------------------------------------------------------------------
(* Properties of the task commands *)

\* C17: a create call whose title is empty after trimming or longer than 200
\* characters is rejected and stores nothing; an accepted create call stores
\* exactly one new task, owned by the caller, whose title is the trimmed input,
\* not empty and at most 200 characters, whose priority is the one supplied or
\* 2, not completed, created now and never updated; any other create call
\* stores nothing.
C17_CreateStoresTrimmedTask ==
  [][ \A p \in Procs :
        ( Acted(p) /\ req'[p].op = "create" )
        => LET b == req'[p].body
           IN  IF Len(Trim(b.Title)) = 0 \/ Len(b.Title) > 200
               THEN resp'[p].status = 400 /\ tasks' = tasks
               ELSE IF resp'[p].status = 201
               THEN \E t \in tasks' :
                      /\ tasks' = tasks \cup {t}
                      /\ \A old \in tasks : old.Id # t.Id
                      /\ t.UserId = req'[p].userId
                      /\ t.Title = Trim(b.Title)
                      /\ Len(t.Title) \in 1..200
                      /\ t.Priority = (IF HasValue(b.Priority) THEN ValueOf(b.Priority) ELSE 2)
                      /\ t.IsCompleted = FALSE
                      /\ t.CreatedAt = now
                      /\ t.UpdatedAt = Null
                      /\ resp'[p].body = Some(MapToResponse(t))
               ELSE tasks' = tasks
    ]_vars

\* C17 witness: some time after the start a task was stored under a title
\* that was sent with surrounding white space
C17_Witness ==
  \E p \in Procs :
    /\ pc[p] = "done" /\ req[p].op = "create" /\ resp[p].status = 201
    /\ now > 0
    /\ \E t \in tasks :
         /\ t.Id = ValueOf(resp[p].body).Id
         /\ t.CreatedAt = now
         /\ t.Title # req[p].body.Title
         /\ t.Title = <<"B">>

\* C18: an accepted update by the owner sets each field the request carries
\* (title, description, due date, priority, completion) to the value sent, and
\* leaves every field the request omits, the task's id, owner and createdAt,
\* and every other task as they were.
C18_UpdateOnlyPresentFields ==
  [][ \A p \in Procs :
        ( Acted(p) /\ req'[p].op = "update" /\ resp'[p].status = 200 )
        => LET b == req'[p].body
           IN  \E old \in tasks, new \in tasks' :
                 /\ old.Id = req'[p].id
                 /\ old.UserId = req'[p].userId
                 /\ new.Id = old.Id
                 /\ new.UserId = old.UserId
                 /\ new.CreatedAt = old.CreatedAt
                 /\ tasks' \ {new} = tasks \ {old}
                 /\ new.Title = (IF HasValue(b.Title) THEN Trim(ValueOf(b.Title))
                                 ELSE old.Title)
                 /\ new.Description = (IF HasValue(b.Description)
                                       THEN Some(Trim(ValueOf(b.Description)))
                                       ELSE old.Description)
                 /\ new.DueDate = (IF HasValue(b.DueDate) THEN b.DueDate ELSE old.DueDate)
                 /\ new.Priority = (IF HasValue(b.Priority) THEN ValueOf(b.Priority)
                                    ELSE old.Priority)
                 /\ new.IsCompleted = (IF HasValue(b.IsCompleted) THEN ValueOf(b.IsCompleted)
                                       ELSE old.IsCompleted)
    ]_vars

\* C18 witness: an update carrying only a title was accepted for a task whose
\* other fields were not at their defaults and kept their values, while
\* another task was stored
C18_Witness ==
  \E p \in Procs :
    /\ pc[p] = "done" /\ req[p].op = "update" /\ resp[p].status = 200
    /\ req[p].body = UpdateTaskRequest(Some(<<" ", "z", " ">>), Null, Null, Null, Null)
    /\ Cardinality(tasks) = 2
    /\ \E t \in tasks :
         /\ t.Id = req[p].id
         /\ t.Title = <<"z">>
         /\ t.Description = Some(<<"e">>)
         /\ t.DueDate = Some(2)
         /\ t.Priority = 3
         /\ t.IsCompleted = TRUE

\* an update or toggle of task id was accepted in this step
Mutated(id) ==
  \E p \in Procs :
    /\ Acted(p)
    /\ req'[p].op \in {"update", "toggle"}
    /\ req'[p].id = id
    /\ resp'[p].status = 200

\* C19: a task is created with createdAt = now and updatedAt null; createdAt
\* never changes; updatedAt changes only by an accepted update or toggle of
\* that task, which sets it to the time of the call, also when the update
\* carries no field; and once set it is never null again.
C19_TimestampsFollowMutations ==
  [][ /\ \A new \in tasks' :
           (\A old \in tasks : old.Id # new.Id)
           => (new.CreatedAt = now /\ new.UpdatedAt = Null)
      /\ \A old \in tasks, new \in tasks' :
           old.Id = new.Id
           => /\ new.CreatedAt = old.CreatedAt
              /\ IF Mutated(old.Id)
                 THEN new.UpdatedAt = Some(now)
                 ELSE new.UpdatedAt = old.UpdatedAt
              /\ HasValue(old.UpdatedAt) => HasValue(new.UpdatedAt)
    ]_vars

\* C19 witness: a task created after the start was stamped, some time later,
\* by an update that carried no field
C19_Witness ==
  \E p \in Procs :
    /\ pc[p] = "done" /\ req[p].op = "update" /\ resp[p].status = 200
    /\ req[p].body = UpdateTaskRequest(Null, Null, Null, Null, Null)
    /\ \E t \in tasks :
         /\ t.Id = req[p].id
         /\ t.CreatedAt > 0
         /\ t.UpdatedAt = Some(now)
         /\ now > t.CreatedAt

\* the key id was given to a task and no task has it any more
Deleted(id) == id < nextTaskId /\ \A t \in tasks : t.Id # id

\* C20: a delete by the owner that succeeds removes the task and nothing else;
\* from then on, whatever is called, no task has that id again, every get,
\* update, toggle and delete of the id is answered NotFound and changes
\* nothing, and no list returns it.
C20_DeleteIsPermanent ==
  [][ /\ \A p \in Procs :
           ( Acted(p) /\ req'[p].op = "delete" /\ resp'[p].status = 204 )
           => /\ \E t \in tasks : t.Id = req'[p].id /\ tasks' = tasks \ {t}
              /\ \A t \in tasks' : t.Id # req'[p].id
      /\ \A id \in TaskIds :
           Deleted(id)
           => /\ \A t \in tasks' : t.Id # id
              /\ \A p \in Procs :
                   ( /\ Acted(p)
                     /\ req'[p].op \in {"get", "update", "toggle", "delete"}
                     /\ req'[p].id = id
                     /\ req'[p].op = "update" => UpdateTaskRequestValid(req'[p].body) )
                   => (resp'[p] = Response(404, "Task not found", Null) /\ tasks' = tasks)
              /\ \A p \in Procs :
                   Listed(p)
                   => \A i \in DOMAIN ValueOf(resp'[p].body).Tasks :
                        ValueOf(resp'[p].body).Tasks[i].Id # id
    ]_vars

\* C20 witness: the owner of a task deleted before asked to delete it again
\* and was answered 404, after another task had been created
C20_Witness ==
  \E p \in Procs :
    /\ pc[p] = "done" /\ req[p].op = "delete" /\ resp[p].status = 404
    /\ Deleted(req[p].id)
    /\ \E t \in tasks : t.Id > req[p].id /\ t.UserId = req[p].userId

\* C21: an accepted toggle by the owner stores the negation of the stored
\* isCompleted and returns the task with the new value, changes no other
\* field but updatedAt and no other task; an accepted toggle that follows an
\* accepted toggle of the same task brings back the value the first one
\* negated.
C21_ToggleNegates ==
  [][ \A p \in Procs :
        ( Acted(p) /\ req'[p].op = "toggle" /\ resp'[p].status = 200 )
        => \E old \in tasks, new \in tasks' :
             /\ old.Id = req'[p].id
             /\ old.UserId = req'[p].userId
             /\ new.IsCompleted = ~old.IsCompleted
             /\ ValueOf(resp'[p].body).IsCompleted = new.IsCompleted
             /\ ValueOf(resp'[p].body).Id = old.Id
             /\ [new EXCEPT !.IsCompleted = old.IsCompleted, !.UpdatedAt = old.UpdatedAt] = old
             /\ tasks' \ {new} = tasks \ {old}
             /\ ( /\ pc[p] = "done" /\ req[p].op = "toggle" /\ resp[p].status = 200
                  /\ req[p].id = old.Id )
                => new.IsCompleted = ~ValueOf(resp[p].body).IsCompleted
    ]_vars

\* C21 witness: a task was toggled twice in a row, the second time some time
\* after it was created, and is not completed
C21_Witness ==
  \E p \in Procs :
    /\ pc[p] = "done" /\ req[p].op = "toggle" /\ resp[p].status = 200
    /\ ValueOf(resp[p].body).IsCompleted = FALSE
    /\ \E t \in tasks :
         /\ t.Id = req[p].id
         /\ ~t.IsCompleted
         /\ t.UpdatedAt = Some(now)
         /\ now > t.CreatedAt

\* the stores of users and tasks
Stores == <<users, nextUserId, tasks, nextTaskId>>

\* the call of slot p has returned a failure of register or login
FailedAuthCall(p) ==
  /\ pc[p] = "done"
  /\ \/ req[p].op = "register" /\ resp[p].status \in {400, 409}
     \/ req[p].op = "login" /\ resp[p].status \in {400, 401}

\* the request of slot p is sent again
Repeat(p) ==
  \/ req[p].op = "register" /\ RegisterBegin(p, req[p])
  \/ req[p].op = "login" /\ Login(p, req[p])

\* a register request with a malformed email, a password shorter than the
\* minimum, or a confirmation that differs from the password
Malformed(r) ==
  \/ ~EmailAddressOk(r.Email)
  \/ Len(r.Password) < PasswordMinLength
  \/ r.ConfirmPassword # r.Password

\* C22: a register with a malformed email, a short password or a mismatching
\* confirmation fails; a failed register or login leaves the stores of users
\* and tasks unchanged, and sending the failed request again yields the same
\* failure; a login, successful or not, never modifies a store.
C22_FailuresChangeNothing ==
  /\ [](\A p \in Procs :
          FailedAuthCall(p) => ~ENABLED (Repeat(p) /\ resp'[p] # resp[p]))
  /\ [][ \A p \in Procs :
          /\ ( Acted(p) /\ req'[p].op = "register" /\ pc[p] # "saving"
                /\ Malformed(req'[p]) )
             => ( pc'[p] = "done" /\ resp'[p].status = 400 )
          /\ ( Acted(p) /\ FailedAuthCall(p)' ) => Stores' = Stores
          /\ ( Acted(p) /\ req'[p].op = "login" ) => Stores' = Stores
       ]_vars

\* C22 witness: with a user stored, a register has been refused as a
\* conflict or for its mismatching confirmation, or a login has been refused
C22_Witness ==
  /\ users # {}
  /\ FailedAuthCall(1)
  /\ \/ resp[1].status = 409
     \/ req[1].op = "register" /\ req[1].ConfirmPassword # req[1].Password
     \/ resp[1].status = 401

\* the fixed text of an Internal failure
GenericMessage == "An unexpected error occurred. Please try again later."

\* C23: an operation that fails on an unexpected store failure is answered
\* 500 with the fixed generic message, never the exception's own message,
\* whatever the hosting environment.
C23_InternalIsGeneric ==
  \A p \in Procs :
    ( pc[p] = "done" /\ resp[p].status = 500 )
    => /\ resp[p].message = GenericMessage
       /\ resp[p].message # DbUpdateExceptionMessage

\* the passwords clients send
Passwords == {PwA, PwB, PwShort, PwBlank}

\* the fields of the response DTOs
AuthResponseFields == {"Token", "ExpiresAt", "User"}
UserInfoFields == {"Id", "Email"}
TokenFields == {"iss", "aud", "nameid", "email", "jti", "iat", "exp", "sig"}
TaskResponseFields ==
  {"Id", "Title", "Description", "DueDate", "Priority", "PriorityLabel",
   "IsCompleted", "CreatedAt", "UpdatedAt"}
TaskListResponseFields == {"Tasks", "TotalCount", "CompletedCount", "PendingCount"}

\* neither a password nor a hash is a field of the body or the text of one
AuthResponseClean(b) ==
  /\ DOMAIN b = AuthResponseFields
  /\ DOMAIN b.User = UserInfoFields
  /\ DOMAIN b.Token = TokenFields
  /\ {b.User.Email, b.Token.email, b.Token.nameid} \cap Passwords = {}

TaskResponseClean(t) ==
  /\ DOMAIN t = TaskResponseFields
  /\ ({t.Title} \cup t.Description) \cap Passwords = {}

ResponseClean(r, b) ==
  IF r.op \in {"register", "login"} THEN AuthResponseClean(b)
  ELSE IF r.op = "list"
  THEN /\ DOMAIN b = TaskListResponseFields
       /\ \A i \in DOMAIN b.Tasks : TaskResponseClean(b.Tasks[i])
  ELSE TaskResponseClean(b)

\* C24: every stored user holds a salted hash of the password it registered
\* with and no password field, and no response of register, login or a task
\* operation carries a password or a password hash.
C24_NoPasswordStoredOrReturned ==
  /\ \A u \in users :
       /\ DOMAIN u = {"Id", "Email", "PasswordHash", "CreatedAt"}
       /\ \E pw \in Passwords, salt \in Salts : u.PasswordHash = HashPassword(pw, salt)
  /\ \A p \in Procs :
       HasValue(resp[p].body) => ResponseClean(req[p], ValueOf(resp[p].body))
  /\ auth.outcome # "None" => auth.response.body = Null

\* C24 witness: a user is stored, its register call was answered with a
\* token, and a task of that user has been returned
C24_Witness ==
  /\ users # {}
  /\ req[1].op = "register" /\ resp[1].status = 201
  /\ req[2].op \in {"create", "get", "update", "toggle"}
  /\ HasValue(resp[2].body)

\* C25: after any sequence of accepted create and update calls every stored
\* task has a title that is non-empty after trimming and at most 200
\* characters long.
C25_TitlesNonEmpty ==
  \A t \in tasks :
    /\ Trim(t.Title) # <<>>
    /\ Len(t.Title) <= TitleMaxLength

\* C26: the response of a list call that ran while other calls of the same
\* user created, updated, toggled or deleted tasks is consistent: total is the
\* number of tasks returned, 0 <= completed <= total, and pending >= 0.
C26_ListConsistentUnderWrites ==
  \A p \in Procs :
    ( pc[p] = "done" /\ req[p].op = "list" /\ resp[p].status = 200 )
    => LET b == ValueOf(resp[p].body)
       IN  /\ b.TotalCount = Len(b.Tasks)
           /\ 0 <= b.CompletedCount
           /\ b.CompletedCount <= b.TotalCount
           /\ b.PendingCount >= 0

\* C27: when two toggles of a task by its owner overlap (the second to save
\* had read the task before the first saved), isCompleted ends at the value
\* both read, as after two toggles one after the other: no toggle is lost.
C27_OverlappingTogglesBothCount ==
  [][ \A p, q \in Procs :
        ( /\ p # q
          /\ pc[p] = "saving" /\ req[p].op = "toggle" /\ pc'[p] = "done"
          /\ ValueOf(pending[p]).UpdatedAt = Null
          /\ pc[q] = "done" /\ req[q].op = "toggle" /\ req[q].id = req[p].id
          /\ resp[q].status = 200
          /\ ValueOf(resp[q].body) =
               MapToResponse(ToggleCompletionAsync(ValueOf(pending[p]), now)) )
        => \E t \in tasks' :
             /\ t.Id = req[p].id
             /\ t.IsCompleted = ValueOf(pending[p]).IsCompleted
    ]_vars

\* C28: no step takes a stored task's dueDate or description from a value
\* back to null while the task exists; an update whose dueDate or description
\* is null leaves that field as stored.
C28_NonNullStaysNonNull ==
  [][ /\ \A old \in tasks, new \in tasks' :
           old.Id = new.Id =>
             /\ HasValue(old.DueDate) => HasValue(new.DueDate)
             /\ HasValue(old.Description) => HasValue(new.Description)
      /\ \A p \in Procs :
           ( Acted(p) /\ req'[p].op = "update" /\ resp'[p].status = 200 )
           => \E old \in tasks, new \in tasks' :
                /\ old.Id = req'[p].id /\ new.Id = old.Id
                /\ req'[p].body.DueDate = Null => new.DueDate = old.DueDate
                /\ req'[p].body.Description = Null => new.Description = old.Description
    ]_vars

\* C28 witness: a task with a description and a due date has been updated by
\* a request that carried neither, and still has both
C28_Witness ==
  \E p \in Procs :
    /\ pc[p] = "done" /\ req[p].op = "update" /\ resp[p].status = 200
    /\ req[p].body.DueDate = Null
    /\ req[p].body.Description = Null
    /\ \E t \in tasks :
         /\ t.Id = req[p].id
         /\ HasValue(t.UpdatedAt)
         /\ HasValue(t.DueDate)
         /\ HasValue(t.Description)

\* every fetch of the TaskList has completed
NoFetchInFlight ==
  /\ taskList.fetches # <<>>
  /\ \A n \in DOMAIN taskList.fetches : HasValue(taskList.fetches[n].result)

\* C29: once every fetch has completed, the displayed tasks and stats are
\* those of the response to the fetch issued last, in whatever order the
\* responses arrived.
C29_LastIssuedFetchDisplayed ==
  NoFetchInFlight =>
    LET last == ValueOf(taskList.fetches[Len(taskList.fetches)].result)
    IN  last.status = 200 =>
          /\ taskList.tasks = ValueOf(last.body).Tasks
          /\ taskList.stats = [total |-> ValueOf(last.body).TotalCount,
                               completed |-> ValueOf(last.body).CompletedCount,
                               pending |-> ValueOf(last.body).PendingCount]

\* C30: once AuthProvider has initialised, isAuthenticated is true exactly
\* when localStorage holds both the token and the user entry, whatever
\* logins, registrations, logouts and API responses have happened.
C30_AuthenticatedIffStored ==
  ~authState.isLoading =>
    ( authState.isAuthenticated
      <=> (HasValue(localStorage.token) /\ HasValue(localStorage.user)) )

====
